---- MODULE Spec2Model ----
(***************************************************************************)
(* Model of the Mordomo multi-agent orchestrator:                          *)
(*   agents/orchestrator.py, agents/base_agent.py, the four concrete       *)
(*   agents and semantic_router.py.                                        *)
(*                                                                         *)
(* Conventions                                                             *)
(*   - Python str values are TLA+ strings; substring tests (`kw in q`)    *)
(*     and str.lower() are computed character by character.                *)
(*   - Confidences are floats in the source; here they are integers in     *)
(*     hundredths (0.3 is 30, 1.0 is 100, matches / 2 is 50 * matches).    *)
(*   - Money amounts are integer cents (127.50 is 12750).                  *)
(*   - A Python dict is a function whose domain is a set of strings.       *)
(***************************************************************************)
EXTENDS Integers, Sequences, FiniteSets, TLC

(***************************************************************************)
(* Bounds of the model                                                     *)
(***************************************************************************)
MaxCalls == 3

MaxQueryCalls == 4

MaxMessageCalls == 4

(***************************************************************************)
(* Python values                                                           *)
(***************************************************************************)
EmptyDict == [k \in {} |-> 0]

None == "None"

DictGet(d, k, default) == IF k \in DOMAIN d THEN d[k] ELSE default

DictUpdate(d, upd) ==
    [k \in (DOMAIN d) \cup (DOMAIN upd) |-> IF k \in DOMAIN upd THEN upd[k] ELSE d[k]]

Min(a, b) == IF a < b THEN a ELSE b

Max(a, b) == IF a > b THEN a ELSE b

UpperChars == "ABCDEFGHIJKLMNOPQRSTUVWXYZÁÉÍÓÚÃÕÇÂÊ"

LowerChars == "abcdefghijklmnopqrstuvwxyzáéíóúãõçâê"

LowerChar(c) ==
    IF \E i \in 1..Len(UpperChars) : SubSeq(UpperChars, i, i) = c
    THEN LET i == CHOOSE j \in 1..Len(UpperChars) : SubSeq(UpperChars, j, j) = c
         IN  SubSeq(LowerChars, i, i)
    ELSE c

RECURSIVE Lower(_)
Lower(s) ==
    IF Len(s) = 0 THEN s
    ELSE LowerChar(SubSeq(s, 1, 1)) \o Lower(SubSeq(s, 2, Len(s)))

\* Python's `kw in q` on strings
Contains(q, kw) ==
    \E i \in 1..(Len(q) - Len(kw) + 1) : SubSeq(q, i, i + Len(kw) - 1) = kw

\* sum(1 for kw in words if kw in q); a word listed twice counts twice
Matches(words, q) ==
    Cardinality({i \in 1..Len(words) : Contains(q, words[i])})

\* any(kw in q for kw in words)
AnyIn(words, q) == \E i \in 1..Len(words) : Contains(q, words[i])

(***************************************************************************)
(* The queries of the model (the universe the keyword tables are built on) *)
(***************************************************************************)
QInvoice == "Quanto tenho que pagar na fatura?"

QRandom == "xyz abc random text"

QTie3 == "quanto gastei na rede"

QTieInvoice == "quanto é a fatura"

QCharge == "melhor hora para carregar"

QTop2 == "custo gasto na rede"

\* queries with keywords of several dispatch groups of one agent
DispatchQueries ==
    {"Consumo da FATURA", "previsão de consumo", "comparar detalhes",
     "detalhe do débito direto", "quando custa o posto", "preço do carregador público",
     "produção vendida à rede hoje", "poupança com venda amanhã", "economia e sol",
     "Reportar avaria: estado do ticket av-2024-003", "estado do Ticket AV-2024-003 e agendar",
     "ticket int-2024-001", "agendar visita amanhã, como?", "porque sem luz",
     "sem luz no quadro", "tenho uma dúvida"}

Queries == {QInvoice, QRandom, QTie3, QTieInvoice, QCharge, QTop2} \cup DispatchQueries

QueriesAndEmpty == Queries \cup {""}

LowerOf == [q \in QueriesAndEmpty |-> Lower(q)]

(***************************************************************************)
(* Agent classes and their can_handle                                      *)
(***************************************************************************)
\* StubAgent is a caller-written subclass of BaseAgent (as MockAgent in the
\* tests): it keeps BaseAgent.can_handle, its process asks for collaboration
\* and its receive_message raises
AgentClasses ==
    {"BillingAgent", "EVAgent", "SolarAgent", "SupportAgent", "BaseAgent", "StubAgent"}

billing_keywords ==
    << "fatura", "factura", "conta", "pagar", "valor", "consumo",
       "kwh", "eletricidade", "gás", "referência", "mb",
       "débito", "direto", "preço", "tarifa", "gastei", "gasto",
       "mês", "mes", "este mês", "último mês", "faturação",
       "montante", "total", "paguei", "custo", "despesa" >>

ev_keywords ==
    << "carro elétrico", "carro eletrico", "carregar", "bateria", "ev", "tesla",
       "kwh", "carregamento", "posto", "mobie", "wallbox",
       "carregador", "autonomia", "elétrico", "eletrico",
       "custo", "preço", "preco", "gasto", "quanto", "custa",
       "horário", "horario", "hora", "quando", "melhor",
       "veículo", "veiculo", "transporte", "automóvel", "automovel" >>

solar_keywords ==
    << "painel", "solar", "fotovoltaico", "pv", "produção",
       "autoconsumo", "vender", "rede", "inversor", "kwh produzidos",
       "sun", "irradiância", "auto-consumo" >>

support_keywords ==
    << "avaria", "problema", "não funciona", "sem luz", "falta luz",
       "técnico", "intervenção", "suporte", "ajuda técnica",
       "falha", "disjuntor", "corte", "contador", "quadro",
       "ticket", "estado", "agendar", "visita", "arranjar",
       "avariado", "queimado", "sem energia" >>

\* matches = sum(1 for kw in <class>_keywords if kw in query), query lower-cased
billing_matches == [q \in QueriesAndEmpty |-> Matches(billing_keywords, LowerOf[q])]

ev_matches == [q \in QueriesAndEmpty |-> Matches(ev_keywords, LowerOf[q])]

solar_matches == [q \in QueriesAndEmpty |-> Matches(solar_keywords, LowerOf[q])]

support_matches == [q \in QueriesAndEmpty |-> Matches(support_keywords, LowerOf[q])]

\* a confidence that is not capped at 1.0
KeywordConfidence_uncapped(matches, floor40, intent, labels) ==
    LET c0 == 50 * matches
        c1 == IF floor40 /\ matches > 0 THEN Max(c0, 40) ELSE c0
    IN  IF intent \in labels THEN Max(c1, 90) ELSE c1

\* the confidence every concrete can_handle computes from its match count
KeywordConfidence(matches, floor40, intent, labels) ==
    LET c0 == Min(50 * matches, 100)
        c1 == IF floor40 /\ matches > 0 THEN Max(c0, 40) ELSE c0
    IN  IF intent \in labels THEN Max(c1, 90) ELSE c1

BillingAgent_can_handle(intent, context) ==
    KeywordConfidence(billing_matches[DictGet(context, "query", "")], TRUE,
                      intent, {"get_invoice", "get_consumption"})

EVAgent_can_handle(intent, context) ==
    KeywordConfidence(ev_matches[DictGet(context, "query", "")], TRUE,
                      intent, {"ev_charging", "carregar_carro"})

\* the solar agent has no 0.4 floor
SolarAgent_can_handle(intent, context) ==
    KeywordConfidence(solar_matches[DictGet(context, "query", "")], FALSE,
                      intent, {"solar_production", "autoconsumo"})

SupportAgent_can_handle(intent, context) ==
    KeywordConfidence(support_matches[DictGet(context, "query", "")], TRUE,
                      intent, {"report_fault", "technical_support", "check_ticket", "schedule_visit"})

BaseAgent_can_handle(intent, context) == 0

can_handle(cls, intent, context) ==
    CASE cls = "BillingAgent" -> BillingAgent_can_handle(intent, context)
      [] cls = "EVAgent"      -> EVAgent_can_handle(intent, context)
      [] cls = "SolarAgent"   -> SolarAgent_can_handle(intent, context)
      [] cls = "SupportAgent" -> SupportAgent_can_handle(intent, context)
      [] OTHER                -> BaseAgent_can_handle(intent, context)

(***************************************************************************)
(* SemanticRouter                                                          *)
(***************************************************************************)
\* the keys of agent_descriptions, in insertion order
agent_descriptions == << "billing_agent", "ev_agent", "solar_agent", "support_agent" >>

DescribedAgents == {agent_descriptions[i] : i \in 1..Len(agent_descriptions)}

\* the keywords dict of _fallback_route, in insertion order
fallback_keywords ==
    << [agent |-> "billing_agent",
        words |-> << "fatura", "conta", "pagar", "valor", "consumo", "kwh", "€" >>],
       [agent |-> "ev_agent",
        words |-> << "carro", "elétrico", "carregar", "bateria", "ev", "tesla", "mobie" >>],
       [agent |-> "solar_agent",
        words |-> << "painel", "solar", "fotovoltaico", "produção", "autoconsumo" >>],
       [agent |-> "support_agent",
        words |-> << "avaria", "problema", "técnico", "suporte", "não funciona" >>] >>

\* a loop of _fallback_route that lets a later domain take over on a tie
RECURSIVE FallbackBest_last_tie(_, _)
FallbackBest_last_tie(query_lower, n) ==
    IF n = 0 THEN [best_agent |-> "none", best_score |-> 0]
    ELSE LET prev  == FallbackBest_last_tie(query_lower, n - 1)
             score == Matches(fallback_keywords[n].words, query_lower)
         IN  IF score > 0 /\ score >= prev.best_score
             THEN [best_agent |-> fallback_keywords[n].agent, best_score |-> score]
             ELSE prev

\* the loop of _fallback_route over the first n entries: (best_agent, best_score)
RECURSIVE FallbackBest(_, _)
FallbackBest(query_lower, n) ==
    IF n = 0 THEN [best_agent |-> "none", best_score |-> 0]
    ELSE LET prev  == FallbackBest(query_lower, n - 1)
             score == Matches(fallback_keywords[n].words, query_lower)
         IN  IF score > prev.best_score
             THEN [best_agent |-> fallback_keywords[n].agent, best_score |-> score]
             ELSE prev

fallback_route(query) ==
    LET best == FallbackBest(Lower(query), Len(fallback_keywords))
    IN  [agent |-> best.best_agent,
         confidence |-> IF best.best_score > 0 THEN Min(50 * best.best_score, 100) ELSE 0]

FallbackOf == [q \in Queries |-> fallback_route(q)]

(* What the HTTP call of route() can produce.                              *)
(*   exception : requests.post raises (network error, timeout)             *)
(*   status    : a response whose status_code is not 200                   *)
(*   nochoices : status 200, no usable "choices"                           *)
(*   json      : content parses as a JSON object; agent and confidence as  *)
(*               given (numeric FALSE: float() of the confidence raises)   *)
(*   notdict   : content parses as JSON that is not an object              *)
(*   text      : content is not JSON; mentions = the described agent names *)
(*               occurring in it                                           *)
LLMOutcomes ==
    {[kind |-> "exception"], [kind |-> "status"], [kind |-> "nochoices"], [kind |-> "notdict"]}
    \cup {[kind |-> "json", agent |-> a, confidence |-> c, numeric |-> TRUE] :
            a \in DescribedAgents \cup {"none", "weather_agent"}, c \in {-20, 0, 30, 31, 95, 100, 150}}
    \cup {[kind |-> "json", agent |-> a, confidence |-> 0, numeric |-> FALSE] :
            a \in {"billing_agent", "weather_agent"}}
    \cup {[kind |-> "text", mentions |-> m] : m \in {{}, {"ev_agent"}, {"solar_agent", "ev_agent"}}}

\* the first key of agent_descriptions that occurs in the content
FirstMentioned(mentions) ==
    agent_descriptions[CHOOSE i \in 1..Len(agent_descriptions) :
        /\ agent_descriptions[i] \in mentions
        /\ \A j \in 1..(i - 1) : agent_descriptions[j] \notin mentions]

\* the try block of route(): it returns a pair, raises, or falls through
\* to the return of _fallback_route after the block's if statements
route_try(query, llm) ==
    CASE llm.kind = "exception" -> [kind |-> "raise"]
      [] llm.kind = "notdict" -> [kind |-> "raise"]
      [] llm.kind = "json" /\ ~llm.numeric -> [kind |-> "raise"]
      [] llm.kind = "json" /\ llm.numeric
              /\ (llm.agent \in DescribedAgents \/ llm.agent = "none") ->
                 [kind |-> "return",
                  value |-> [agent |-> llm.agent, confidence |-> llm.confidence]]
      [] llm.kind = "text" /\ llm.mentions # {} ->
                 [kind |-> "return",
                  value |-> [agent |-> FirstMentioned(llm.mentions), confidence |-> 80]]
      [] OTHER -> [kind |-> "return", value |-> FallbackOf[query]]

\* a route() whose except clause answers ("none", 0.0)
route_declining(query, llm) ==
    LET r == route_try(query, llm)
    IN  IF r.kind = "raise" THEN [agent |-> "none", confidence |-> 0] ELSE r.value

\* SemanticRouter.route(query): the except clause returns _fallback_route
route(query, llm) ==
    LET r == route_try(query, llm)
    IN  IF r.kind = "raise" THEN FallbackOf[query] ELSE r.value

(***************************************************************************)
(* Agent objects.  An agent object has a class and the name its            *)
(* constructor passes to BaseAgent.__init__; base1 is a plain BaseAgent    *)
(* constructed with the name "billing_agent", stub1 a StubAgent            *)
(* constructed with the name "support_agent".                              *)
(***************************************************************************)
AgentObjs == {"billing1", "ev1", "solar1", "support1", "base1", "stub1"}

ClassOf ==
    [o \in AgentObjs |->
        CASE o = "billing1" -> "BillingAgent"
          [] o = "ev1"      -> "EVAgent"
          [] o = "solar1"   -> "SolarAgent"
          [] o = "support1" -> "SupportAgent"
          [] o = "stub1"    -> "StubAgent"
          [] OTHER          -> "BaseAgent"]

NameOf ==
    [o \in AgentObjs |->
        CASE o = "billing1" -> "billing_agent"
          [] o = "ev1"      -> "ev_agent"
          [] o = "solar1"   -> "solar_agent"
          [] o = "support1" -> "support_agent"
          [] o = "stub1"    -> "support_agent"
          [] OTHER          -> "billing_agent"]

(***************************************************************************)
(* The registry: the dict self.agents in insertion order, one entry        *)
(* [name, agent] per key.                                                  *)
(***************************************************************************)
RegNames(reg) == {reg[i].name : i \in 1..Len(reg)}

RegIndex(reg, name) == CHOOSE i \in 1..Len(reg) : reg[i].name = name

RegGet(reg, name) == reg[RegIndex(reg, name)].agent

\* a registry that adds an entry on every registration
RegPut_appending(reg, name, obj) ==
    Append(reg, [name |-> name, agent |-> obj])

\* self.agents[agent.name] = agent
RegPut(reg, name, obj) ==
    IF name \in RegNames(reg)
    THEN [reg EXCEPT ![RegIndex(reg, name)] = [name |-> name, agent |-> obj]]
    ELSE Append(reg, [name |-> name, agent |-> obj])

(***************************************************************************)
(* AgentMessage                                                            *)
(***************************************************************************)
\* a payload that is not a dict (None)
NonePayload == [none |-> TRUE]

IsDict(payload) == payload # NonePayload

AgentMessage(from_agent, to_agent, message_type, payload) ==
    [from_agent |-> from_agent, to_agent |-> to_agent,
     message_type |-> message_type, payload |-> payload]

\* a list object, as a value of user_context["invoice_number"]: not hashable
PyList == "<list>"

(***************************************************************************)
(* The world a nested call can change: every agent's private context       *)
(* (agent.shared_context) and the trace of the calls made so far inside    *)
(* the current API call.  `bus` (agent.message_bus set or None) and `reg`  *)
(* are only read.                                                          *)
(***************************************************************************)
\* how a nested call ends: it returns a value, returns None, or raises
Returned(w, value) == [w |-> w, raised |-> FALSE, none |-> FALSE, value |-> value]

ReturnedNone(w) == [w |-> w, raised |-> FALSE, none |-> TRUE, value |-> None]

Raised(w, exc) == [w |-> w, raised |-> TRUE, none |-> FALSE, value |-> exc]

Traced(w, event) == [w EXCEPT !.trace = Append(@, event)]

\* BillingAgent.mock_invoices
mock_invoices ==
    LET inv == [number |-> "FT-2024-001", amount |-> 12750, date |-> "2024-01-15",
                consumption_kwh |-> 450, status |-> "pending", due_date |-> "2024-02-05"]
    IN  [k \in {"latest", "FT-2024-001"} |-> inv]

\* SupportAgent.technician_availability
technician_availability ==
    [k \in {"today", "tomorrow", "next_week"} |->
        CASE k = "today" ->
               [slots |-> << "15:00", "16:00", "17:00" >>, technicians_on_duty |-> 3]
          [] k = "tomorrow" ->
               [slots |-> << "09:00", "10:00", "11:00", "14:00", "15:00", "16:00" >>,
                technicians_on_duty |-> 5]
          [] OTHER ->
               [slots |-> << "09:00", "10:00", "11:00", "14:00", "15:00", "16:00", "17:00" >>,
                technicians_on_duty |-> 5]]

\* SupportAgent.mock_tickets as constructed, in insertion order; created_at
\* is the month, day, hour and minute of the ISO string as one number, which
\* orders as the strings do
mock_tickets ==
    << [id |-> "AV-2024-001", type |-> "contador",
        description |-> "Contador não regista consumo", status |-> "in_progress",
        priority |-> "high", created_at |-> 2100900, technician |-> "João Silva",
        location |-> "Rua das Flores, 45, Lisboa"],
       [id |-> "AV-2024-002", type |-> "quadro_eletrico",
        description |-> "Disjuntor salta frequentemente", status |-> "open",
        priority |-> "medium", created_at |-> 2141630, technician |-> None,
        location |-> "Av. da Liberdade, 120, Lisboa"],
       [id |-> "AV-2024-003", type |-> "falta_luz",
        description |-> "Sem energia em toda a casa", status |-> "resolved",
        priority |-> "high", created_at |-> 2082000, technician |-> "Mário Santos",
        location |-> "Rua Augusta, 15, Lisboa"],
       [id |-> "AV-2024-004", type |-> "tomada",
        description |-> "Tomada da cozinha não funciona", status |-> "closed",
        priority |-> "low", created_at |-> 2011000, technician |-> "Ana Costa",
        location |-> "Praça do Comércio, 5, Lisboa"] >>

\* [t for t in tickets if t["status"] in ["open", "in_progress"]]
OpenTickets(tickets) ==
    SelectSeq(tickets, LAMBDA t : t.status \in {"open", "in_progress"})

\* the open tickets of the store as constructed, as check_pending_tickets
\* lists them
open_tickets ==
    [i \in 1..Len(OpenTickets(mock_tickets)) |->
        [id |-> OpenTickets(mock_tickets)[i].id,
         status |-> OpenTickets(mock_tickets)[i].status]]

\* handlers that address their reply to the addressee of the request
handle_request_unaddressed(cls, name, message) ==
    AgentMessage(name, message.to_agent, "response", [status |-> "not_implemented"])

\* BaseAgent._handle_request and its overrides
handle_request(cls, name, message) ==
    LET request_type == DictGet(message.payload, "request_type", None)
        Reply(payload) == AgentMessage(name, message.from_agent, "response", payload)
    IN  CASE cls = "BillingAgent" /\ request_type = "get_customer_value" ->
                Reply([annual_value |-> mock_invoices["latest"].amount * 12,
                       segment |-> IF mock_invoices["latest"].amount > 15000
                                   THEN "premium" ELSE "standard"])
          [] cls = "BillingAgent" /\ request_type = "get_consumption_pattern" ->
                Reply([peak_hours |-> <<"19:00", "20:00", "21:00">>,
                       off_peak_usage |-> 35, monthly_trend |-> "increasing"])
          [] cls = "EVAgent" /\ request_type = "get_ev_impact_on_bill" ->
                Reply([monthly_consumption_kwh |-> 280, monthly_cost |-> 8550,
                       peak_hour_usage |-> 15])
          [] cls = "SolarAgent" /\ request_type = "get_solar_contribution" ->
                Reply([monthly_production |-> 420, autoconsume_rate |-> 65,
                       grid_injection |-> 185, bill_reduction_percent |-> 45])
          [] cls = "SupportAgent" /\ request_type = "get_technician_availability" ->
                Reply([next_available_slot |-> "2024-02-15 10:00",
                       technicians_on_duty |-> 5,
                       slots_today |-> technician_availability["today"].slots,
                       slots_tomorrow |-> technician_availability["tomorrow"].slots])
          [] cls = "SupportAgent" /\ request_type = "check_pending_tickets" ->
                Reply([has_pending_tickets |-> Len(open_tickets) > 0,
                       ticket_count |-> Len(open_tickets),
                       tickets |-> open_tickets])
          [] cls = "SupportAgent" /\ request_type = "get_customer_issues_history" ->
                Reply([total_tickets_30d |-> 2,
                       recurring_issues |-> << "disjuntor" >>,
                       avg_resolution_time |-> "6 horas"])
          [] OTHER -> Reply([status |-> "not_implemented"])

\* BaseAgent.receive_message on agent object obj
receive_message(w, obj, message) ==
    LET ev(raised) == [ev |-> "receive_message", agent |-> obj,
                       message |-> message, raised |-> raised]
    IN  IF ClassOf[obj] = "StubAgent"
        THEN Raised(Traced(w, ev(TRUE)), "RuntimeError")
        ELSE IF message.message_type = "request"
        THEN \* the overrides read message.payload.get(...): AttributeError on a
             \* payload that is not a dict; BaseAgent's own handler never reads it
             IF ClassOf[obj] # "BaseAgent" /\ ~IsDict(message.payload)
             THEN Raised(Traced(w, ev(TRUE)), "AttributeError")
             ELSE Returned(Traced(w, ev(FALSE)),
                           IF ClassOf[obj] = "BaseAgent"
                           THEN AgentMessage(NameOf[obj], message.from_agent, "response",
                                             [status |-> "not_implemented"])
                           ELSE handle_request(ClassOf[obj], NameOf[obj], message))
        ELSE IF message.message_type = "context"
        THEN \* _update_context: self.shared_context.update(payload)
             IF ~IsDict(message.payload)
             THEN Raised(Traced(w, ev(TRUE)), "TypeError")
             ELSE ReturnedNone(
                    [Traced(w, ev(FALSE)) EXCEPT
                        !.agent_context[obj] = DictUpdate(@, message.payload)])
        ELSE ReturnedNone(Traced(w, ev(FALSE)))

\* the broadcast loop delivering to the sender as well
RECURSIVE Broadcast_to_all(_, _, _, _)
Broadcast_to_all(w, reg, message, i) ==
    IF i > Len(reg) THEN w
    ELSE Broadcast_to_all(receive_message(w, reg[i].agent, message).w, reg, message, i + 1)

\* the broadcast loop without its try/except: the first failure ends it
RECURSIVE Broadcast_aborted(_, _, _, _)
Broadcast_aborted(w, reg, message, i) ==
    IF i > Len(reg) THEN w
    ELSE IF reg[i].name # message.from_agent
         THEN LET r == receive_message(w, reg[i].agent, message)
              IN  IF r.raised THEN r.w
                  ELSE Broadcast_aborted(r.w, reg, message, i + 1)
         ELSE Broadcast_aborted(w, reg, message, i + 1)

\* the broadcast loop of route_message over the registry entries i..Len(reg)
RECURSIVE Broadcast(_, _, _, _)
Broadcast(w, reg, message, i) ==
    IF i > Len(reg) THEN w
    ELSE IF reg[i].name # message.from_agent
         THEN Broadcast(receive_message(w, reg[i].agent, message).w, reg, message, i + 1)
         ELSE Broadcast(w, reg, message, i + 1)

\* a message bus that hands the answer of a request back to its sender
route_message_answering(w, reg, message) ==
    IF message.to_agent = "*"
    THEN Broadcast(w, reg, message, 1)
    ELSE IF message.to_agent \in RegNames(reg)
    THEN LET Answered(r) ==
                IF r.raised \/ r.none \/ r.value.to_agent \notin RegNames(reg) THEN r.w
                ELSE receive_message(r.w, RegGet(reg, r.value.to_agent), r.value).w
         IN  Answered(receive_message(w, RegGet(reg, message.to_agent), message))
    ELSE w

\* Orchestrator.route_message: returns the world; never raises
route_message(w, reg, message) ==
    IF message.to_agent = "*"
    THEN Broadcast(w, reg, message, 1)
    ELSE IF message.to_agent \in RegNames(reg)
    THEN receive_message(w, RegGet(reg, message.to_agent), message).w
    ELSE w

\* send_message keeping the answer of a request: the payload of the Response
\* is stored in the sender's own context
send_message_storing(w, reg, bus, obj, to_agent, message_type, payload) ==
    IF bus[obj] /\ message_type = "request" /\ to_agent \in RegNames(reg)
    THEN LET Stored(r) ==
                IF r.raised \/ r.none \/ ~IsDict(r.value.payload) THEN r.w
                ELSE [r.w EXCEPT !.agent_context[obj] = DictUpdate(@, r.value.payload)]
         IN  Stored(receive_message(w, RegGet(reg, to_agent),
                                    AgentMessage(NameOf[obj], to_agent, message_type, payload)))
    ELSE IF bus[obj]
    THEN route_message(w, reg, AgentMessage(NameOf[obj], to_agent, message_type, payload))
    ELSE w

\* send_message without the test of self.message_bus
send_message_unguarded(w, reg, bus, obj, to_agent, message_type, payload) ==
    route_message(w, reg, AgentMessage(NameOf[obj], to_agent, message_type, payload))

\* BaseAgent.send_message
send_message(w, reg, bus, obj, to_agent, message_type, payload) ==
    IF bus[obj]
    THEN route_message(w, reg, AgentMessage(NameOf[obj], to_agent, message_type, payload))
    ELSE w

\* BaseAgent.broadcast_context
broadcast_context(w, reg, bus, obj, context) ==
    send_message(w, reg, bus, obj, "*", "context", context)

(***************************************************************************)
(* process of the concrete agents                                          *)
(***************************************************************************)
\* the response dict of process; the pictograph that opens some messages in the
\* source is left out of the message text
Response(success, data, message, follow_up) ==
    [success |-> success, data |-> data, message |-> message, follow_up |-> follow_up]

\* index of the last keyword group with a keyword in the query, 0 if none
FirstGroup_last(groups, query_lower) ==
    IF \E i \in 1..Len(groups) : AnyIn(groups[i], query_lower)
    THEN CHOOSE i \in 1..Len(groups) :
            /\ AnyIn(groups[i], query_lower)
            /\ \A j \in (i + 1)..Len(groups) : ~AnyIn(groups[j], query_lower)
    ELSE 0

\* index of the first keyword group with a keyword in the query, 0 if none
FirstGroup(groups, query_lower) ==
    IF \E i \in 1..Len(groups) : AnyIn(groups[i], query_lower)
    THEN CHOOSE i \in 1..Len(groups) :
            /\ AnyIn(groups[i], query_lower)
            /\ \A j \in 1..(i - 1) : ~AnyIn(groups[j], query_lower)
    ELSE 0

billing_groups ==
    << << "fatura", "conta", "valor", "pagar" >>,
       << "consumo", "kwh", "gastei", "gasto" >>,
       << "próxima", "proxima", "previsão", "previsao", "vai custar", "estimativa" >>,
       << "comparar", "comparação", "comparacao", "diferença", "difereca", "anterior",
          "mês passado", "mes passado" >>,
       << "detalhes", "detalhe", "especificação", "especificacao", "itemizado" >>,
       << "pagamento automático", "pagamento automatico", "débito direto",
          "debito direto", "automatizar" >> >>

ev_groups ==
    << << "horário", "horario", "hora", "quando", "melhor", "ótimo", "otimo" >>,
       << "custo", "custa", "custam", "preço", "preco", "gasto", "gastos", "pago",
          "paguei", "quanto", "valor", "eur", "€" >>,
       << "posto", "postos", "carregador", "público", "publico", "mobie", "local",
          "próximo", "proximo", "perto" >> >>

solar_groups ==
    << << "produzi", "produção", "hoje", "gerado" >>,
       << "vendi", "venda", "rede", "compensação" >>,
       << "poupança", "economia", "roi", "rentabilidade" >>,
       << "previsão", "amanhã", "sol", "tempo" >> >>

billing_group == [q \in Queries |-> FirstGroup(billing_groups, LowerOf[q])]

ev_group == [q \in Queries |-> FirstGroup(ev_groups, LowerOf[q])]

solar_group == [q \in Queries |-> FirstGroup(solar_groups, LowerOf[q])]

\* BillingAgent._get_invoice
BillingAgent_get_invoice(w, reg, bus, obj, invoice_number) ==
    IF invoice_number = PyList
    THEN \* self.mock_invoices.get(<list>, ...): TypeError, unhashable type
         Raised(w, "TypeError")
    ELSE LET inv == DictGet(mock_invoices, invoice_number, mock_invoices["latest"])
             w1  == broadcast_context(w, reg, bus, obj,
                        [last_invoice_amount |-> inv.amount,
                         last_consumption |-> inv.consumption_kwh,
                         customer_segment |-> IF inv.amount < 20000
                                              THEN "residential" ELSE "commercial"])
         IN  Returned(w1, Response(TRUE, [invoice |-> inv],
                                   "Fatura FT-2024-001: €127.5",
                                   << "Comparar com mês anterior", "Ver detalhes de consumo",
                                      "Configurar pagamento automático" >>))

BillingAgent_process(w, reg, bus, obj, query, context) ==
    LET invoice_number == DictGet(context, "invoice_number", "latest")
        g == billing_group[query]
    IN  CASE g = 1 -> BillingAgent_get_invoice(w, reg, bus, obj, invoice_number)
          [] g = 2 -> Returned(w, Response(TRUE,
                        [consumption |-> [current_month |-> 450, previous_month |-> 380,
                                          same_month_last_year |-> 420,
                                          trend |-> "+18% vs mês anterior",
                                          projection_next_month |-> 480]],
                        "Consumo: 450 kWh (+18% vs mês anterior)",
                        << "Porque aumentou?", "Comparar com vizinhos", "Dicas para reduzir" >>))
          [] g = 3 -> Returned(w, Response(TRUE,
                        [prediction |-> [estimated_amount |-> 13500, confidence |-> 85]],
                        "Próxima fatura estimada: €135.0 (confiança: 85%)",
                        << "Como reduzir?", "Simular mudança de tarifa", "Alertas de consumo" >>))
          [] g = 4 -> Returned(w, Response(TRUE,
                        [comparison |-> [current_month |-> 450, previous_month |-> 380,
                                         difference_kwh |-> 70]],
                        "Comparação: Consumo subiu +18.4% (70 kWh). Fatura aumentou €19.3.",
                        << "Ver detalhes de consumo", "Dicas para reduzir",
                           "Previsão próxima fatura" >>))
          [] g = 5 -> Returned(w, Response(TRUE,
                        [details |-> [total_kwh |-> 450]],
                        "Maior consumo: Aquecimento (40% = €51.0).",
                        << "Comparar com mês anterior", "Dicas para reduzir",
                           "Simular mudança de tarifa" >>))
          [] g = 6 -> Returned(w, Response(TRUE,
                        [payment_methods |-> << [type |-> "Débito Direto"] >>],
                        "Posso configurar débito direto para pagamento automático. Deseja ativar?",
                        << "Ativar débito direto", "Ver outras opções" >>))
          [] OTHER -> Returned(w, Response(TRUE, [agent |-> "billing"],
                        "Posso ajudar com faturas, consumo ou previsões. O que precisa?",
                        << "Ver última fatura", "Consumo deste mês",
                           "Previsão próxima fatura" >>))

EVAgent_process(w, reg, bus, obj, query, context) ==
    LET g == ev_group[query]
    IN  CASE g = 1 -> \* _optimal_charging_time asks the billing agent first
                Returned(send_message(w, reg, bus, obj, "billing_agent", "request",
                                      [request_type |-> "get_consumption_pattern"]),
                         Response(TRUE,
                            [optimization |-> [best_start_time |-> "22:00",
                                               best_end_time |-> "06:00",
                                               savings_vs_peak |-> "€45/mês"]],
                            "Melhor horário: 22:00. Poupa €45/mês!",
                            << "Como programar o carregador?", "Comparar com tarifa simples",
                               "Ver consumo detalhado" >>))
          [] g = 2 -> Returned(w, Response(TRUE,
                        [costs |-> [home_charging_monthly |-> 8550,
                                    public_charging_monthly |-> 4500,
                                    total_monthly |-> 13050]],
                        "Gasta €130.5/mês (€-€120/mês (poupança) vs gasolina)",
                        << "Como reduzir mais?", "Comparar tarifas",
                           "Simular upgrade para trifásico" >>))
          [] g = 3 -> Returned(w, Response(TRUE,
                        [stations |-> << "MOBI.E - Continente Benfica",
                                         "Tesla Supercharger - Colombo", "Ionity - A1" >>],
                        "3 postos encontrados. Mais próximo: MOBI.E - Continente Benfica (1.2 km)",
                        << "Navegar para lá", "Ver disponibilidade em tempo real",
                           "Comparar preços" >>))
          [] OTHER -> Returned(w, Response(TRUE, [agent |-> "ev"],
                        "Posso ajudar com otimização de carregamento, custos e localização de postos. O que precisa?",
                        << "Melhor horário para carregar", "Quanto gasto por mês?",
                           "Postos mais próximos" >>))

SolarAgent_process(w, reg, bus, obj, query, context) ==
    LET g == solar_group[query]
    IN  CASE g = 1 -> \* _get_production asks the billing agent first
                Returned(send_message(w, reg, bus, obj, "billing_agent", "request",
                                      [request_type |-> "get_consumption_pattern"]),
                         Response(TRUE,
                            [production |-> [today_kwh |-> 185, month_total |-> 420,
                                             autoconsumed |-> 123, sold_to_grid |-> 62]],
                            "Hoje: 18.5 kWh (+12% vs esperado). Autoconsumo: 12.3 kWh",
                            << "Ver gráfico detalhado", "Performance vs vizinhos",
                               "Alerta se underperforming" >>))
          [] g = 2 -> Returned(w, Response(TRUE,
                        [sales |-> [month_sold_kwh |-> 185, month_earnings |-> 2350,
                                    year_sold_kwh |-> 2100, year_earnings |-> 26600]],
                        "Este mês vendeu 185 kWh = €23.5. Este ano: €266",
                        << "Previsão anual", "Histórico de preços",
                           "Otimizar autoconsumo vs venda" >>))
          [] g = 3 -> Returned(w, Response(TRUE,
                        [savings |-> [monthly_savings |-> 8950, annual_savings |-> 107400]],
                        "Poupa €89.5/mês. Retorno do investimento: 4.5 anos restantes",
                        << "Comparar com investimento alternativo",
                           "Impacto ambiental detalhado", "Otimizar para máximo ROI" >>))
          [] g = 4 -> Returned(w, Response(TRUE,
                        [forecast |-> [tomorrow_kwh |-> 162, confidence |-> 82]],
                        "Amanhã: 16.2 kWh previstos (Parcialmente nublado)",
                        << "Previsão 7 dias", "Melhores dias do mês",
                           "Alerta de nuvem/poeira" >>))
          [] OTHER -> Returned(w, Response(TRUE, [agent |-> "solar"],
                        "Posso ajudar com monitorização solar, autoconsumo e vendas à rede. O que precisa?",
                        << "Produção de hoje", "Quanto vendi à rede?", "Poupança total" >>))

(***************************************************************************)
(* SupportAgent.  Its object state is the ticket store and the ticket      *)
(* counter; what it draws from `random` is an argument of process.         *)
(***************************************************************************)
Digits == "0123456789"

AsciiLetters == "abcdefghijklmnopqrstuvwxyz"

CharAt(s, i) == SubSeq(s, i, i)

IsDigit(c) == \E i \in 1..Len(Digits) : CharAt(Digits, i) = c

\* [A-Z] under re.IGNORECASE
IsLetter(c) == \E i \in 1..Len(AsciiLetters) : CharAt(AsciiLetters, i) = LowerChar(c)

\* \s
IsSpace(c) == c \in {" ", "\t", "\n"}

UpperChar(c) ==
    IF \E i \in 1..Len(LowerChars) : CharAt(LowerChars, i) = c
    THEN LET i == CHOOSE j \in 1..Len(LowerChars) : CharAt(LowerChars, j) = c
         IN  CharAt(UpperChars, i)
    ELSE c

RECURSIVE Upper(_)
Upper(s) ==
    IF Len(s) = 0 THEN s
    ELSE UpperChar(CharAt(s, 1)) \o Upper(SubSeq(s, 2, Len(s)))

\* the least element of a non-empty set of positions
Leftmost(S) == CHOOSE i \in S : \A j \in S : i <= j

\* -\d{4}-\d{3} at position i
TicketTail(q, i) ==
    /\ i >= 1 /\ i + 8 <= Len(q)
    /\ CharAt(q, i) = "-" /\ CharAt(q, i + 5) = "-"
    /\ \A k \in (i + 1)..(i + 4) : IsDigit(CharAt(q, k))
    /\ \A k \in (i + 6)..(i + 8) : IsDigit(CharAt(q, k))

\* the position after the run of letters that starts at i
LetterRunEnd(q, i) ==
    Leftmost({m \in (i + 1)..(Len(q) + 1) : m = Len(q) + 1 \/ ~IsLetter(CharAt(q, m))})

\* [A-Z]+-\d{4}-\d{3} at position i
TicketAt(q, i) ==
    /\ i >= 1 /\ i <= Len(q)
    /\ IsLetter(CharAt(q, i))
    /\ TicketTail(q, LetterRunEnd(q, i))

\* <prefix>-\d{4}-\d{3} at position i, the prefix in either case
PrefixedTicketAt(q, i, prefix) ==
    /\ i + Len(prefix) - 1 <= Len(q)
    /\ Lower(SubSeq(q, i, i + Len(prefix) - 1)) = prefix
    /\ TicketTail(q, i + Len(prefix))

\* the first position after i that holds no white space
SpaceRunEnd(q, i) ==
    Leftmost({m \in (i + 1)..(Len(q) + 1) : m = Len(q) + 1 \/ ~IsSpace(CharAt(q, m))})

\* ticket\s+([A-Z]+-\d{4}-\d{3}) at position i
TicketWordAt(q, i) ==
    /\ i + 6 <= Len(q)
    /\ Lower(SubSeq(q, i, i + 5)) = "ticket"
    /\ IsSpace(CharAt(q, i + 6))
    /\ TicketAt(q, SpaceRunEnd(q, i + 6))

\* SupportAgent._extract_ticket_id: the four patterns in order, the leftmost
\* match of the first pattern that matches, upper-cased; None when none does
extract_ticket_id(query) ==
    LET P  == 1..Len(query)
        P1 == {i \in P : PrefixedTicketAt(query, i, "av")}
        P2 == {i \in P : PrefixedTicketAt(query, i, "int")}
        P3 == {i \in P : TicketWordAt(query, i)}
        P4 == {i \in P : TicketAt(query, i)}
        From(i) == SubSeq(query, i, LetterRunEnd(query, i) + 8)
    IN  CASE P1 # {} -> Upper(SubSeq(query, Leftmost(P1), Leftmost(P1) + 10))
          [] P2 # {} -> Upper(SubSeq(query, Leftmost(P2), Leftmost(P2) + 11))
          [] P3 # {} -> Upper(From(SpaceRunEnd(query, Leftmost(P3) + 6)))
          [] P4 # {} -> Upper(From(Leftmost(P4)))
          [] OTHER   -> None

\* the name of the first group with a keyword in the query, else the default
FirstNamed(named_groups, query_lower, default) ==
    IF \E i \in 1..Len(named_groups) : AnyIn(named_groups[i].words, query_lower)
    THEN named_groups[Leftmost({i \in 1..Len(named_groups) :
                                   AnyIn(named_groups[i].words, query_lower)})].name
    ELSE default

\* SupportAgent._detect_issue_type
detect_issue_type(query_lower) ==
    FirstNamed(<< [name |-> "contador", words |-> << "contador", "medidor", "contadores" >>],
                  [name |-> "quadro_eletrico",
                   words |-> << "quadro", "disjuntor", "fusível", "fusiveis" >>],
                  [name |-> "falta_luz",
                   words |-> << "sem luz", "falta luz", "corte", "escuro" >>],
                  [name |-> "tomada", words |-> << "tomada", "socket", "plug" >>],
                  [name |-> "potencia", words |-> << "potência", "potencia" >>] >>,
               query_lower, "outro")

\* SupportAgent._extract_date
extract_date(query_lower) ==
    FirstNamed(<< [name |-> "today", words |-> << "hoje" >>],
                  [name |-> "tomorrow", words |-> << "amanhã", "amanha" >>],
                  [name |-> "monday", words |-> << "segunda", "segunda-feira" >>],
                  [name |-> "tuesday", words |-> << "terça", "terca", "terça-feira" >>],
                  [name |-> "wednesday", words |-> << "quarta", "quarta-feira" >>],
                  [name |-> "thursday", words |-> << "quinta", "quinta-feira" >>],
                  [name |-> "friday", words |-> << "sexta", "sexta-feira" >>] >>,
               query_lower, "next_available")

\* f"{n:03d}"
Pad3(n) ==
    IF n < 10 THEN "00" \o ToString(n)
    ELSE IF n < 100 THEN "0" \o ToString(n)
    ELSE ToString(n)

\* the object state of a SupportAgent after __init__
SupportInit == [ticket_counter |-> 5, tickets |-> mock_tickets]

\* a ticket store that keeps the four most recent tickets
TicketPut_recycling(tickets, ticket) ==
    IF Len(tickets) >= 4 THEN Append(Tail(tickets), ticket) ELSE Append(tickets, ticket)

\* self.mock_tickets[ticket_id] = ticket
TicketPut(tickets, ticket) ==
    IF \E i \in 1..Len(tickets) : tickets[i].id = ticket.id
    THEN [tickets EXCEPT ![CHOOSE i \in 1..Len(tickets) : tickets[i].id = ticket.id] = ticket]
    ELSE Append(tickets, ticket)

\* the result of a SupportAgent call together with the object state it leaves
WithSupport(r, support) ==
    [w |-> r.w, raised |-> r.raised, none |-> r.none, value |-> r.value,
     support |-> support]

\* SupportAgent._report_issue; the message is its first line
SupportAgent_report_issue(w, reg, bus, obj, support, issue_type, description, location, rnd) ==
    LET ticket_id == "AV-2024-" \o Pad3(support.ticket_counter)
        priority  == IF issue_type \in {"falta_luz", "contador"} THEN "high" ELSE "medium"
        ticket    == [id |-> ticket_id, type |-> issue_type,
                      description |-> SubSeq(description, 1, Min(100, Len(description))),
                      status |-> "open", priority |-> priority,
                      created_at |-> rnd.now, technician |-> None,
                      location |-> IF location \in {None, ""}
                                   THEN "Morada do cliente" ELSE location]
        \* _request_billing_check
        w1 == send_message(w, reg, bus, obj, "billing_agent", "request",
                           [request_type |-> "check_pending_issues"])
    IN  WithSupport(
            Returned(w1, Response(TRUE,
                [ticket_id |-> ticket_id, status |-> "open", priority |-> priority,
                 issue_type |-> issue_type,
                 estimated_response |-> IF priority = "high" THEN "4 horas" ELSE "24 horas"],
                "Avaria registada com ID " \o ticket_id \o ".",
                << "Verificar estado do ticket", "Agendar visita para amanhã",
                   "Cancelar pedido", "Outras dúvidas técnicas" >>)),
            [ticket_counter |-> support.ticket_counter + 1,
             tickets |-> TicketPut(support.tickets, ticket)])

\* sorted(tickets, key=created_at, reverse=True)[0]: the sort is stable
MostRecent(tickets) ==
    tickets[Leftmost({i \in 1..Len(tickets) :
                         \A j \in 1..Len(tickets) : tickets[j].created_at <= tickets[i].created_at})]

\* SupportAgent._check_ticket_status; the message is its first line
SupportAgent_check_ticket_status(w, support, ticket_id) ==
    LET known  == ticket_id # None /\ ticket_id # ""
                     /\ \E i \in 1..Len(support.tickets) : support.tickets[i].id = ticket_id
        ticket == IF known
                  THEN support.tickets[CHOOSE i \in 1..Len(support.tickets) :
                                          support.tickets[i].id = ticket_id]
                  ELSE IF OpenTickets(support.tickets) # << >>
                  THEN MostRecent(OpenTickets(support.tickets))
                  ELSE MostRecent(support.tickets)
    IN  WithSupport(
            Returned(w, Response(TRUE, [ticket |-> ticket], "Ticket " \o ticket.id,
                IF ticket.status \in {"open", "in_progress"}
                THEN << "Ver localização em tempo real", "Contactar técnico",
                        "Reagendar", "Cancelar ticket" >>
                ELSE << "Reportar nova avaria", "Ver histórico completo",
                        "Avaliar serviço" >>)),
            support)

\* SupportAgent._schedule_visit; the message is its first line
SupportAgent_schedule_visit(w, support, preferred_date, issue_type, rnd) ==
    LET day   == CASE preferred_date \in {"today", "hoje"} -> "today"
                   [] preferred_date \in {"tomorrow", "amanha", "amanhã"} -> "tomorrow"
                   [] OTHER -> "next_week"
        slots == technician_availability[day].slots
        day_text == CASE day = "today" -> "hoje"
                      [] day = "tomorrow" -> "amanhã"
                      [] OTHER -> "próxima semana"
        ticket_id == "AV-2024-" \o Pad3(support.ticket_counter)
        ticket == [id |-> ticket_id,
                   type |-> IF issue_type = "" THEN "visita_tecnica" ELSE issue_type,
                   description |-> "Visita técnica agendada para " \o day_text,
                   status |-> "open", priority |-> "medium", created_at |-> rnd.now,
                   technician |-> rnd.technician, location |-> "Morada do cliente"]
    IN  IF slots = << >>
        THEN WithSupport(
                Returned(w, Response(FALSE, EmptyDict,
                    "Não há slots disponíveis para essa data. Posso agendar para outro dia?",
                    << "Agendar para amanhã", "Agendar para próxima semana",
                       "Ver disponibilidade" >>)),
                support)
        ELSE WithSupport(
                Returned(w, Response(TRUE,
                    [ticket_id |-> ticket_id, scheduled_date |-> day_text,
                     scheduled_time |-> slots[1], technician |-> rnd.technician],
                    "Visita técnica agendada!",
                    << "Reagendar visita", "Cancelar visita", "Adicionar instruções",
                       "Confirmar endereço" >>)),
                [ticket_counter |-> support.ticket_counter + 1,
                 tickets |-> TicketPut(support.tickets, ticket)])

\* SupportAgent.faq_database in insertion order, without the answers
faq_database ==
    << [id |-> "sem_luz", question |-> "O que faço se não tenho luz?",
        keywords |-> << "sem luz", "falta luz", "corte", "escuro" >>],
       [id |-> "disjuntor", question |-> "Porque é que o disjuntor salta?",
        keywords |-> << "disjuntor", "salta", "desarma", "quadro" >>],
       [id |-> "contador", question |-> "O contador está avariado, o que fazer?",
        keywords |-> << "contador", "medidor", "display", "avariado" >>],
       [id |-> "potencia", question |-> "Como saber se preciso de mais potência?",
        keywords |-> << "potência", "potencia", "aumentar", "mais potência" >>],
       [id |-> "fatura_alta", question |-> "Porque está a minha fatura tão alta?",
        keywords |-> << "fatura alta", "conta alta", "caro", "aumentou" >>],
       [id |-> "tomada", question |-> "Tomada não funciona, o que fazer?",
        keywords |-> << "tomada", "socket", "não funciona", "sem corrente" >>],
       [id |-> "horas", question |-> "Quais são as horas de vazio?",
        keywords |-> << "vazio", "horas", "bi-horário", "tri-horário" >>] >>

\* the loop of _get_faq over the first n entries: (best_match, best_score)
RECURSIVE FaqBest(_, _)
FaqBest(query_lower, n) ==
    IF n = 0 THEN [best_match |-> 0, best_score |-> 0]
    ELSE LET prev  == FaqBest(query_lower, n - 1)
             score == Matches(faq_database[n].keywords, query_lower)
         IN  IF score > prev.best_score
             THEN [best_match |-> n, best_score |-> score]
             ELSE prev

\* SupportAgent._get_faq; faq_id is the loop variable after the loop, the
\* last key of the database; the message is its first line
SupportAgent_get_faq(w, support, query_lower) ==
    LET best == FaqBest(query_lower, Len(faq_database))
    IN  WithSupport(
            IF best.best_match # 0 /\ best.best_score > 0
            THEN Returned(w, Response(TRUE,
                    [faq_id |-> faq_database[Len(faq_database)].id, matched |-> TRUE],
                    faq_database[best.best_match].question,
                    << "Ainda tenho dúvidas", "Reportar avaria relacionada",
                       "Falar com técnico", "Outra pergunta" >>))
            ELSE Returned(w, Response(TRUE, [matched |-> FALSE],
                    "Posso ajudar com estas questões comuns:",
                    [i \in 1..5 |-> faq_database[i].id])),
            support)

\* SupportAgent._handle_no_power; the message is its first line
SupportAgent_handle_no_power(w, support, rnd) ==
    WithSupport(
        IF rnd.outage
        THEN Returned(w, Response(TRUE, [outage_detected |-> TRUE],
                "Detetámos um corte de energia na sua zona!",
                << "Receber notificação quando voltar", "Reportar problema diferente",
                   "Ver estado de outros cortes" >>))
        ELSE Returned(w, Response(TRUE, [outage_detected |-> FALSE],
                "Verifique estes passos para diagnosticar o problema:",
                << "Já verifiquei tudo - preciso de técnico", "Como verificar o disjuntor?",
                   "Qual o número de emergência?", "Há corte na minha zona?" >>)),
        support)

support_groups ==
    << << "avaria", "problema", "não funciona", "avariado", "queimado", "reportar" >>,
       << "estado", "ticket", "intervenção", "andamento", "situação" >>,
       << "agendar", "marcar", "técnico", "visita", "tecnico", "quando", "disponível" >>,
       << "faq", "pergunta", "dúvida", "duvida", "como", "o que faço", "porque" >>,
       << "sem luz", "falta luz", "corte", "escuro" >> >>

\* SupportAgent.process on the object state `support`, drawing rnd from
\* random and the clock
SupportAgent_process(w, reg, bus, obj, query, context, support, rnd) ==
    LET query_lower == Lower(query)
        g == FirstGroup(support_groups, query_lower)
    IN  CASE g = 1 -> SupportAgent_report_issue(w, reg, bus, obj, support,
                          detect_issue_type(query_lower), query,
                          DictGet(context, "location", None), rnd)
          [] g = 2 -> SupportAgent_check_ticket_status(w, support, extract_ticket_id(query))
          [] g = 3 -> SupportAgent_schedule_visit(w, support, extract_date(query_lower),
                          detect_issue_type(query_lower), rnd)
          [] g = 4 -> SupportAgent_get_faq(w, support, query_lower)
          [] g = 5 -> SupportAgent_handle_no_power(w, support, rnd)
          [] OTHER -> WithSupport(
                        Returned(w, Response(TRUE, [agent |-> "support"],
                            "Sou o agente de Suporte Técnico. Posso ajudar com:",
                            << "Reportar avaria", "Ver estado do meu ticket",
                               "Agendar técnico", "Não tenho luz - ajuda!" >>)),
                        support)

\* random.choice of a technician, random.random() < 0.3, datetime.now()
RandomDraws ==
    {[technician |-> t, outage |-> o, now |-> 11021200] :
        t \in {"João Silva", "Pedro Ferreira"}, o \in BOOLEAN}

\* the draws of a generator as seeded
FirstDraws == [technician |-> "João Silva", outage |-> FALSE, now |-> 11021200]

\* the collaboration requests of the stub: a registered concrete agent, an agent
\* id nobody registers, the stub itself (whose receive_message raises) and the
\* billing agent with a request type it does not know
stub_requests ==
    << [agent |-> "ev_agent", request_type |-> "get_ev_impact_on_bill"],
       [agent |-> "nobody", request_type |-> "get_customer_value"],
       [agent |-> "support_agent", request_type |-> "get_technician_availability"],
       [agent |-> "billing_agent", request_type |-> "check_pending_issues"] >>

StubAgent_process(w, reg, bus, obj, query, context) ==
    Returned(w, Response(TRUE,
                [needs_collaboration |-> TRUE, collaboration_requests |-> stub_requests],
                "Stub", << >>))

\* agent.process(query, context) on agent object obj, recorded in the trace;
\* SupportAgent.process takes its object state and its draws from the world
\* and leaves the new object state there
process(w, reg, bus, obj, query, context) ==
    LET cls == ClassOf[obj]
        Recorded(r) == [r EXCEPT !.w = Traced(@, [ev |-> "process", agent |-> obj,
                                                  raised |-> r.raised, value |-> r.value])]
        Kept(r) == [w |-> [r.w EXCEPT !.support = r.support],
                    raised |-> r.raised, none |-> r.none, value |-> r.value]
    IN  Recorded(
            CASE cls = "BillingAgent" -> BillingAgent_process(w, reg, bus, obj, query, context)
              [] cls = "EVAgent"      -> EVAgent_process(w, reg, bus, obj, query, context)
              [] cls = "SolarAgent"   -> SolarAgent_process(w, reg, bus, obj, query, context)
              [] cls = "SupportAgent" -> Kept(SupportAgent_process(w, reg, bus, obj, query,
                                                                   context, w.support, w.rnd))
              [] cls = "StubAgent"    -> StubAgent_process(w, reg, bus, obj, query, context)
              [] cls = "BaseAgent"    -> \* BaseAgent.process
                                         Raised(w, "NotImplementedError"))

(***************************************************************************)
(* Orchestrator                                                            *)
(***************************************************************************)
VARIABLES
    agents,                 \* self.agents, in insertion order
    message_bus,            \* per agent object: message_bus is set (TRUE) or None
    agent_context,          \* per agent object: its private shared_context dict
    conversation_history,   \* shared_context["conversation_history"]
    user_profile,           \* shared_context["user_profile"]
    session_data,           \* shared_context["session_data"]
    call,                   \* the last API call, its arguments and what it found
    ret,                    \* how it ended: the value returned or the exception raised
    trace,                  \* the calls it made to the router and to agents, in order
    ncalls,                 \* number of API calls made so far
    frames,                 \* per caller thread: how far its route_query call is, and
                            \* the call's local variables
    ticket_store,           \* the SupportAgent object's ticket_counter and mock_tickets
    draws                   \* what random.choice, random.random and datetime.now give
                            \* the support agent's next process call

vars == << agents, message_bus, agent_context, conversation_history, user_profile,
           session_data, call, ret, trace, ncalls, frames, ticket_store, draws >>

\* the world as a call finds it
World ==
    [agent_context |-> agent_context, trace |-> << >>,
     support |-> ticket_store, rnd |-> draws]

\* the draws a call leaves for the next one: new ones when a SupportAgent's
\* process ran in it
NextDraws(tr) ==
    IF \E i \in 1..Len(tr) : tr[i].ev = "process" /\ ClassOf[tr[i].agent] = "SupportAgent"
    THEN RandomDraws ELSE {draws}

\* the threads that call route_query on one orchestrator
Threads == {"t1", "t2"}

\* no thread is inside route_query
NoFrames == [t \in Threads |-> [pc |-> 0]]

\* threshold of _select_agents (0.3) and the closeness of the top two (0.2)
AcceptThreshold == 30

TieMargin == 20

\* scored_agents of _select_agents over the registry entries 1..n
RECURSIVE ScoredAgents(_, _, _)
ScoredAgents(reg, context, n) ==
    IF n = 0 THEN << >>
    ELSE LET conf == can_handle(ClassOf[reg[n].agent], "", context)
             rest == ScoredAgents(reg, context, n - 1)
         IN  IF conf > AcceptThreshold
             THEN Append(rest, [conf |-> conf, agent |-> reg[n].agent])
             ELSE rest

\* scored_agents left in registration order
RECURSIVE SortDesc_unsorted(_)
SortDesc_unsorted(s) == s

\* a descending sort that puts an element before the earlier ones of equal
\* score (not stable)
RECURSIVE SortDesc_ties_reversed(_)
SortDesc_ties_reversed(s) ==
    IF Len(s) <= 1 THEN s
    ELSE LET front == SortDesc_ties_reversed(SubSeq(s, 1, Len(s) - 1))
             x     == s[Len(s)]
             k     == Cardinality({i \in 1..Len(front) : front[i].conf > x.conf})
         IN  SubSeq(front, 1, k) \o << x >> \o SubSeq(front, k + 1, Len(front))

\* list.sort(key=lambda x: x[0], reverse=True): descending and stable
RECURSIVE SortDesc(_)
SortDesc(s) ==
    IF Len(s) <= 1 THEN s
    ELSE LET front == SortDesc(SubSeq(s, 1, Len(s) - 1))
             x     == s[Len(s)]
             k     == Cardinality({i \in 1..Len(front) : front[i].conf >= x.conf})
         IN  SubSeq(front, 1, k) \o << x >> \o SubSeq(front, k + 1, Len(front))

\* _select_agents returning the best-scoring agent alone
select_agents_single(reg, query, context, routed) ==
    IF /\ routed.agent # "none"
       /\ routed.agent \in RegNames(reg)
       /\ routed.confidence > AcceptThreshold
    THEN << RegGet(reg, routed.agent) >>
    ELSE LET scored_agents == SortDesc(ScoredAgents(reg, context, Len(reg)))
             selected == [i \in 1..Len(scored_agents) |-> scored_agents[i].agent]
         IN  IF Len(selected) > 0 THEN SubSeq(selected, 1, 1) ELSE << >>

\* _select_agents accepting a router confidence of exactly the threshold
select_agents_inclusive(reg, query, context, routed) ==
    IF /\ routed.agent # "none"
       /\ routed.agent \in RegNames(reg)
       /\ routed.confidence >= AcceptThreshold
    THEN << RegGet(reg, routed.agent) >>
    ELSE LET scored_agents == SortDesc(ScoredAgents(reg, context, Len(reg)))
             selected == [i \in 1..Len(scored_agents) |-> scored_agents[i].agent]
         IN  IF /\ Len(scored_agents) >= 2
                /\ scored_agents[1].conf - scored_agents[2].conf < TieMargin
             THEN SubSeq(selected, 1, 2)
             ELSE IF Len(selected) > 0 THEN SubSeq(selected, 1, 1) ELSE << >>

\* Orchestrator._select_agents; routed is what semantic_router.route returned
select_agents(reg, query, context, routed) ==
    IF /\ routed.agent # "none"
       /\ routed.agent \in RegNames(reg)
       /\ routed.confidence > AcceptThreshold
    THEN << RegGet(reg, routed.agent) >>
    ELSE LET scored_agents == SortDesc(ScoredAgents(reg, context, Len(reg)))
             selected == [i \in 1..Len(scored_agents) |-> scored_agents[i].agent]
         IN  IF /\ Len(scored_agents) >= 2
                /\ scored_agents[1].conf - scored_agents[2].conf < TieMargin
             THEN SubSeq(selected, 1, 2)
             ELSE IF Len(selected) > 0 THEN SubSeq(selected, 1, 1) ELSE << >>

\* Orchestrator._needs_collaboration
needs_collaboration(response) == DictGet(response.data, "needs_collaboration", FALSE)

\* the loop of _request_collaboration without its try/except: the first
\* target whose receive_message raises ends the loop
RECURSIVE RequestCollaboration_uncaught(_, _, _, _, _)
RequestCollaboration_uncaught(acc, reg, requester, collab_requests, i) ==
    IF i > Len(collab_requests) THEN acc
    ELSE LET target_agent == collab_requests[i].agent
             message == AgentMessage(NameOf[requester], target_agent, "request",
                                     [request_type |-> collab_requests[i].request_type])
             Collected(r) ==
                IF r.raised THEN [acc EXCEPT !.w = r.w]
                ELSE RequestCollaboration_uncaught(
                        [w |-> r.w,
                         collab_data |->
                            IF ~r.none
                            THEN DictUpdate(acc.collab_data,
                                            [k \in {target_agent} |-> r.value.payload])
                            ELSE acc.collab_data],
                        reg, requester, collab_requests, i + 1)
         IN  IF target_agent \in RegNames(reg)
             THEN Collected(receive_message(acc.w, RegGet(reg, target_agent), message))
             ELSE RequestCollaboration_uncaught(acc, reg, requester, collab_requests, i + 1)

\* the loop of _request_collaboration over collab_requests[i..]; acc is
\* [w, collab_data]
RECURSIVE RequestCollaboration(_, _, _, _, _)
RequestCollaboration(acc, reg, requester, collab_requests, i) ==
    IF i > Len(collab_requests) THEN acc
    ELSE LET target_agent == collab_requests[i].agent
             message == AgentMessage(NameOf[requester], target_agent, "request",
                                     [request_type |-> collab_requests[i].request_type])
         IN  IF target_agent \in RegNames(reg)
             THEN LET r == receive_message(acc.w, RegGet(reg, target_agent), message)
                  IN  RequestCollaboration(
                        [w |-> r.w,
                         collab_data |->
                            IF ~r.raised /\ ~r.none
                            THEN DictUpdate(acc.collab_data,
                                            [k \in {target_agent} |-> r.value.payload])
                            ELSE acc.collab_data],
                        reg, requester, collab_requests, i + 1)
             ELSE RequestCollaboration(acc, reg, requester, collab_requests, i + 1)

\* Orchestrator._generate_collaboration_message
generate_collaboration_message(collab_data) ==
    LET has(a, k) == a \in DOMAIN collab_data /\ k \in DOMAIN collab_data[a]
        p1 == IF has("billing_agent", "annual_value")
              THEN << "Com base no seu histórico, tem acesso a tarifas especiais." >> ELSE << >>
        p2 == IF has("ev_agent", "monthly_consumption_kwh")
              THEN << "O seu carro elétrico representa 280 kWh/mês da fatura." >> ELSE << >>
        p3 == IF has("solar_agent", "bill_reduction_percent")
              THEN << "Os seus painéis solares estão a reduzir a fatura em 45%." >> ELSE << >>
        parts == p1 \o p2 \o p3
        Join[n \in 0..Len(parts)] ==
            IF n = 0 THEN ""
            ELSE IF n = 1 THEN parts[1] ELSE Join[n - 1] \o " " \o parts[n]
    IN  Join[Len(parts)]

\* Orchestrator._merge_responses
merge_responses(primary, collab_data) ==
    LET withData == [primary EXCEPT
                        !.data = DictUpdate(@, [collaboration |-> collab_data])]
    IN  IF DOMAIN collab_data # {}
        THEN [withData EXCEPT
                !.message = @ \o "\n\n" \o generate_collaboration_message(collab_data)]
        ELSE withData

\* an update that replaces user_profile by what this response carries
update_context_from_response_fresh(profile, response) ==
    LET data == response.data
        p1 == IF "invoice" \in DOMAIN data
              THEN [last_invoice |-> DictGet(data["invoice"], "amount", None),
                    monthly_consumption |->
                        DictGet(data["invoice"], "consumption_kwh", None)]
              ELSE EmptyDict
    IN  IF "consumption" \in DOMAIN data
        THEN DictUpdate(p1, [consumption_trend |->
                                DictGet(data["consumption"], "trend", None)])
        ELSE p1

\* Orchestrator._update_context_from_response, as the new user_profile
update_context_from_response(profile, response) ==
    LET data == response.data
        p1 == IF "invoice" \in DOMAIN data
              THEN DictUpdate(profile,
                       [last_invoice |-> DictGet(data["invoice"], "amount", None),
                        monthly_consumption |->
                            DictGet(data["invoice"], "consumption_kwh", None)])
              ELSE profile
    IN  IF "consumption" \in DOMAIN data
        THEN DictUpdate(p1, [consumption_trend |->
                                DictGet(data["consumption"], "trend", None)])
        ELSE p1

\* Orchestrator._fallback_response, without its "context" entry (the bullets of
\* the message are written as hyphens)
fallback_response ==
    [primary_agent |-> "orchestrator",
     collaborating_agents |-> << >>,
     response |-> Response(TRUE, EmptyDict,
        "Não tenho a certeza de como ajudar com isso. Posso ajudar com:\n- Faturas e consumo de energia\n- Carregamento de veículos elétricos\n- Painéis solares e autoconsumo\n\nO que gostaria de saber?",
        << "Ver minha fatura", "Otimizar carregamento EV", "Produção solar" >>)]

\* an orchestrator module whose import of llm_bridge succeeded
LLM_imported == TRUE

\* the import of llm_bridge at the top of orchestrator.py fails (the module
\* defines no name llm_bridge), so LLM_AVAILABLE is False
LLM_AVAILABLE == FALSE

\* llm_bridge.enhance_response(user_query, agent_response, agent_name): the
\* display text the language model writes from the response; the object
\* llm_bridge is not part of the repository
enhance_response(user_query, agent_response, agent_name) ==
    "LLM: " \o agent_response.message

UserContexts == {EmptyDict, [invoice_number |-> PyList]}

SharedContext(history, profile, session) ==
    [conversation_history |-> history, user_profile |-> profile, session_data |-> session]

\* route_query is modelled as the sequence of its steps over a frame f holding
\* the call's arguments and locals, the shared context it writes and the world
\* (w) its nested calls change.  f.ret.kind is "running" until the call returns
\* or raises; a step of a call that has ended changes nothing.
Running(f) == f.ret.kind = "running"

\* lines 67-81 with the history restarted at the user turn
rq_begin_restarted(query, user_context0, llm) ==
    LET user_context == DictUpdate(user_context0, [query |-> query])
    IN  [query |-> query,
         user_context |-> user_context,
         llm |-> llm,
         history |-> << [role |-> "user", content |-> query,
                         timestamp |-> DictGet(user_context, "timestamp", None)] >>,
         profile |-> user_profile,
         w |-> World,
         candidates |-> << >>,
         primary_response |-> EmptyDict,
         collaborating_agents |-> << >>,
         ret |-> [kind |-> "running"]]

\* lines 67-81 without the append of the user turn
rq_begin_unrecorded(query, user_context0, llm) ==
    LET user_context == DictUpdate(user_context0, [query |-> query])
    IN  [query |-> query,
         user_context |-> user_context,
         llm |-> llm,
         history |-> conversation_history,
         profile |-> user_profile,
         w |-> World,
         candidates |-> << >>,
         primary_response |-> EmptyDict,
         collaborating_agents |-> << >>,
         ret |-> [kind |-> "running"]]

\* lines 67-81: user_context["query"] = query; the user turn is appended
rq_begin(query, user_context0, llm) ==
    LET user_context == DictUpdate(user_context0, [query |-> query])
    IN  [query |-> query,
         user_context |-> user_context,
         llm |-> llm,
         history |-> Append(conversation_history,
                            [role |-> "user", content |-> query,
                             timestamp |-> DictGet(user_context, "timestamp", None)]),
         profile |-> user_profile,
         w |-> World,
         candidates |-> << >>,
         primary_response |-> EmptyDict,
         collaborating_agents |-> << >>,
         ret |-> [kind |-> "running"]]

\* lines 83-89 with the fallback answer recorded as an assistant turn
rq_select_recorded(f) ==
    LET routed == route(f.query, f.llm)
        candidates == select_agents(agents, f.query, f.user_context, routed)
        history2 == Append(f.history,
                           [role |-> "assistant",
                            content |-> fallback_response.response.message,
                            agent |-> fallback_response.primary_agent,
                            timestamp |-> DictGet(f.user_context, "timestamp", None)])
        f1 == [f EXCEPT !.candidates = candidates,
                        !.w = Traced(@, [ev |-> "route", result |-> routed])]
    IN  IF candidates = << >>
        THEN [f1 EXCEPT !.history = history2,
                        !.ret =
                [kind |-> "return",
                 value |-> [primary_agent |-> fallback_response.primary_agent,
                            collaborating_agents |-> fallback_response.collaborating_agents,
                            response |-> fallback_response.response,
                            context |-> SharedContext(history2, f.profile, session_data)]]]
        ELSE f1

\* lines 83-89: candidates = self._select_agents(...); the fallback when empty
rq_select(f) ==
    LET routed == route(f.query, f.llm)
        candidates == select_agents(agents, f.query, f.user_context, routed)
        f1 == [f EXCEPT !.candidates = candidates,
                        !.w = Traced(@, [ev |-> "route", result |-> routed])]
    IN  IF candidates = << >>
        THEN [f1 EXCEPT !.ret =
                [kind |-> "return",
                 value |-> [primary_agent |-> fallback_response.primary_agent,
                            collaborating_agents |-> fallback_response.collaborating_agents,
                            response |-> fallback_response.response,
                            context |-> SharedContext(f.history, f.profile, session_data)]]]
        ELSE f1

\* lines 97-113 with the exception answered by the fallback instead of raised
rq_primary_absorbed(f) ==
    IF ~Running(f) THEN f
    ELSE LET p == process(f.w, agents, message_bus, f.candidates[1], f.query, f.user_context)
         IN  IF p.raised
             THEN [f EXCEPT !.w = p.w,
                            !.ret = [kind |-> "return",
                                     value |-> [primary_agent |-> fallback_response.primary_agent,
                                                collaborating_agents |-> << >>,
                                                response |-> fallback_response.response,
                                                context |-> SharedContext(f.history, f.profile,
                                                                          session_data)]]]
             ELSE [f EXCEPT !.w = p.w, !.primary_response = p.value]

\* lines 97-113: the primary agent's process; its exception is re-raised
rq_primary(f) ==
    IF ~Running(f) THEN f
    ELSE LET p == process(f.w, agents, message_bus, f.candidates[1], f.query, f.user_context)
         IN  IF p.raised
             THEN [f EXCEPT !.w = p.w, !.ret = [kind |-> "raise", value |-> p.value]]
             ELSE [f EXCEPT !.w = p.w, !.primary_response = p.value]

\* the loop of lines 119-132 without its try/except
RECURSIVE Secondaries_uncaught(_, _)
Secondaries_uncaught(f, i) ==
    IF i > Len(f.candidates) \/ ~Running(f) THEN f
    ELSE LET r == process(f.w, agents, message_bus, f.candidates[i], f.query, f.user_context)
         IN  Secondaries_uncaught(
                IF r.raised
                THEN [f EXCEPT !.w = r.w, !.ret = [kind |-> "raise", value |-> r.value]]
                ELSE [f EXCEPT !.w = r.w,
                               !.collaborating_agents =
                                   Append(@, [agent |-> NameOf[f.candidates[i]],
                                              data |-> r.value.data])],
                i + 1)

\* the loop of lines 119-132 over the secondary candidates i..
RECURSIVE Secondaries(_, _)
Secondaries(f, i) ==
    IF i > Len(f.candidates) THEN f
    ELSE LET r == process(f.w, agents, message_bus, f.candidates[i], f.query, f.user_context)
         IN  Secondaries(
                IF r.raised
                THEN \* except Exception: logged, the agent is left out
                     [f EXCEPT !.w = r.w]
                ELSE [f EXCEPT !.w = r.w,
                               !.collaborating_agents =
                                   Append(@, [agent |-> NameOf[f.candidates[i]],
                                              data |-> r.value.data])],
                i + 1)

\* lines 115-132
rq_secondaries(f) == IF ~Running(f) THEN f ELSE Secondaries(f, 2)

\* lines 134-138: collaboration requested by the primary response
rq_collaboration(f) ==
    IF ~Running(f) \/ ~needs_collaboration(f.primary_response) THEN f
    ELSE LET rc == RequestCollaboration(
                      [w |-> f.w, collab_data |-> EmptyDict], agents, f.candidates[1],
                      DictGet(f.primary_response.data, "collaboration_requests", << >>), 1)
         IN  [f EXCEPT !.w = rc.w,
                       !.primary_response = merge_responses(@, rc.collab_data)]

\* lines 140-141 with the data of the secondary agents copied as well
rq_update_context_all(f) ==
    IF ~Running(f) THEN f
    ELSE LET Copy[n \in 0..Len(f.collaborating_agents)] ==
                IF n = 0
                THEN update_context_from_response(f.profile, f.primary_response)
                ELSE update_context_from_response(
                        Copy[n - 1], [data |-> f.collaborating_agents[n].data])
         IN  [f EXCEPT !.profile = Copy[Len(f.collaborating_agents)]]

\* lines 140-141
rq_update_context(f) ==
    IF ~Running(f) THEN f
    ELSE [f EXCEPT !.profile = update_context_from_response(@, f.primary_response)]

\* lines 143-158: with LLM_AVAILABLE False the message is left as it is
rq_enhance(f) ==
    IF ~Running(f) \/ ~LLM_AVAILABLE THEN f
    ELSE [f EXCEPT !.primary_response.message =
                      enhance_response(f.query, f.primary_response,
                                       NameOf[f.candidates[1]])]

\* lines 160-179 without the append of the assistant turn
rq_finish_unrecorded(f) ==
    IF ~Running(f) THEN f
    ELSE [f EXCEPT
            !.ret = [kind |-> "return",
                     value |-> [primary_agent |-> NameOf[f.candidates[1]],
                                collaborating_agents |-> f.collaborating_agents,
                                response |-> f.primary_response,
                                context |-> SharedContext(f.history, f.profile,
                                                          session_data)]]]

\* lines 160-179: the assistant turn is appended and the envelope returned
rq_finish(f) ==
    IF ~Running(f) THEN f
    ELSE LET history2 ==
                Append(f.history,
                       [role |-> "assistant",
                        content |-> f.primary_response.message,
                        agent |-> NameOf[f.candidates[1]],
                        timestamp |-> DictGet(f.user_context, "timestamp", None)])
         IN  [f EXCEPT
                !.history = history2,
                !.ret = [kind |-> "return",
                         value |-> [primary_agent |-> NameOf[f.candidates[1]],
                                    collaborating_agents |-> f.collaborating_agents,
                                    response |-> f.primary_response,
                                    context |-> SharedContext(history2, f.profile,
                                                              session_data)]]]

\* Orchestrator.route_query(query, user_context) as a whole: the final frame.
\* llm is what the router's HTTP call produces.
route_query(query, user_context0, llm) ==
    rq_finish(rq_enhance(rq_update_context(rq_collaboration(rq_secondaries(
        rq_primary(rq_select(rq_begin(query, user_context0, llm))))))))

(***************************************************************************)
(* The state machine: one action per API call of the orchestrator          *)
(***************************************************************************)
Init ==
    /\ agents = << >>
    /\ message_bus = [o \in AgentObjs |-> FALSE]
    /\ agent_context = [o \in AgentObjs |-> EmptyDict]
    /\ conversation_history = << >>
    /\ user_profile = EmptyDict
    /\ session_data = EmptyDict
    /\ call = [op |-> "__init__"]
    /\ ret = [kind |-> "return", value |-> None]
    /\ trace = << >>
    /\ ncalls = 0
    /\ frames = NoFrames
    /\ ticket_store = SupportInit
    /\ draws = FirstDraws

\* Orchestrator.register_agent(agent)
RegisterAgent(obj) ==
    /\ agents' = RegPut(agents, NameOf[obj], obj)
    /\ message_bus' = [message_bus EXCEPT ![obj] = TRUE]
    /\ call' = [op |-> "register_agent", agent |-> obj]
    /\ ret' = [kind |-> "return", value |-> None]
    /\ trace' = << >>
    /\ ncalls' = ncalls + 1
    /\ UNCHANGED << ticket_store, draws, frames, agent_context, conversation_history,
                    user_profile, session_data >>

\* Orchestrator.route_query(query, user_context)
RouteQuery(query, user_context0, llm) ==
    \E f \in {route_query(query, user_context0, llm)} :
        /\ conversation_history' = f.history
        /\ user_profile' = f.profile
        /\ agent_context' = f.w.agent_context
        /\ trace' = f.w.trace
        /\ call' = [op |-> "route_query", query |-> query, user_context |-> user_context0,
                    candidates |-> f.candidates]
        /\ ret' = f.ret
        /\ ticket_store' = f.w.support
        /\ draws' \in NextDraws(f.w.trace)
        /\ ncalls' = ncalls + 1
        /\ UNCHANGED << frames, agents, message_bus, session_data >>

\* Orchestrator.route_message(message)
RouteMessage(message) ==
    LET w == route_message(World,
                           agents, message)
    IN  /\ agent_context' = w.agent_context
        /\ trace' = w.trace
        /\ call' = [op |-> "route_message", message |-> message]
        /\ ret' = [kind |-> "return", value |-> None]
        /\ ncalls' = ncalls + 1
        /\ UNCHANGED << ticket_store, draws, frames, agents, message_bus,
                        conversation_history, user_profile, session_data >>

\* clear_context resetting the shared context only
ClearContext_shared_only ==
    /\ conversation_history' = << >>
    /\ user_profile' = EmptyDict
    /\ session_data' = EmptyDict
    /\ call' = [op |-> "clear_context",
                turns |-> Len(conversation_history),
                held |-> {o \in AgentObjs : agent_context[o] # EmptyDict}]
    /\ ret' = [kind |-> "return", value |-> None]
    /\ trace' = << >>
    /\ ncalls' = ncalls + 1
    /\ UNCHANGED << ticket_store, draws, frames, agents, message_bus, agent_context >>

\* Orchestrator.clear_context()
ClearContext ==
    /\ conversation_history' = << >>
    /\ user_profile' = EmptyDict
    /\ session_data' = EmptyDict
    /\ agent_context' =
          [o \in AgentObjs |->
              IF \E i \in 1..Len(agents) : agents[i].agent = o
              THEN EmptyDict ELSE agent_context[o]]
    /\ call' = [op |-> "clear_context",
                turns |-> Len(conversation_history),
                held |-> {o \in AgentObjs : agent_context[o] # EmptyDict}]
    /\ ret' = [kind |-> "return", value |-> None]
    /\ trace' = << >>
    /\ ncalls' = ncalls + 1
    /\ UNCHANGED << ticket_store, draws, frames, agents, message_bus >>

\* the router outcomes and the messages the API calls of the model are made with
MainLLM ==
    {[kind |-> "exception"],
     [kind |-> "json", agent |-> "none", confidence |-> 0, numeric |-> TRUE],
     [kind |-> "json", agent |-> "billing_agent", confidence |-> 95, numeric |-> TRUE],
     [kind |-> "json", agent |-> "ev_agent", confidence |-> 30, numeric |-> TRUE],
     [kind |-> "json", agent |-> "solar_agent", confidence |-> 31, numeric |-> TRUE],
     [kind |-> "text", mentions |-> {"support_agent"}]}

Payloads == {[a |-> 1], [a |-> 2, b |-> 1], NonePayload}

Messages ==
    {AgentMessage(f, t, "context", p) :
        f \in {"billing_agent", "user"}, t \in {"*", "ev_agent", "nobody"}, p \in Payloads}
    \cup {AgentMessage("user", "*", "request", NonePayload)}

MainQueries == {QInvoice, QRandom, QCharge, QTieInvoice}

MainMessages ==
    {AgentMessage("billing_agent", "*", "context", [a |-> 1]),
     AgentMessage("user", "ev_agent", "context", [a |-> 2, b |-> 1]),
     AgentMessage("user", "nobody", "context", [a |-> 1]),
     AgentMessage("user", "*", "request", NonePayload)}

\* the agent objects the orchestrator is given
MainAgents == {"billing1", "ev1", "solar1", "base1", "stub1"}

\* every API call
Next ==
    /\ ncalls < MaxCalls
    /\ \/ \E obj \in MainAgents : RegisterAgent(obj)
       \/ \E query \in MainQueries, uc \in UserContexts, llm \in MainLLM :
             RouteQuery(query, uc, llm)
       \/ \E message \in MainMessages : RouteMessage(message)
       \/ ClearContext

Spec == Init /\ [][Next]_vars

\* registration and queries on the three keyword-scored agents
QueryAgents == {"billing1", "ev1", "solar1"}

QueryLLM ==
    {[kind |-> "exception"],
     [kind |-> "json", agent |-> "none", confidence |-> 0, numeric |-> TRUE]}

TieQueries == {QInvoice, QTie3, QTieInvoice, QTop2}

NextQ ==
    /\ ncalls < MaxQueryCalls
    /\ \/ \E obj \in QueryAgents : RegisterAgent(obj)
       \/ \E query \in TieQueries, uc \in UserContexts, llm \in QueryLLM :
             RouteQuery(query, uc, llm)

SpecQ == Init /\ [][NextQ]_vars

\* registration and the message bus
NextM ==
    /\ ncalls < MaxMessageCalls
    /\ \/ \E obj \in MainAgents : RegisterAgent(obj)
       \/ \E message \in Messages : RouteMessage(message)

SpecM == Init /\ [][NextM]_vars

(***************************************************************************)
(* Properties of route_query, route_message and the registry               *)
(***************************************************************************)
IsPrefix(s, t) == Len(s) <= Len(t) /\ SubSeq(t, 1, Len(s)) = s

\* the entries the last call added to the history h, given the history before
Added(before, after) == SubSeq(after, Len(before) + 1, Len(after))

Roles(entries) == [i \in 1..Len(entries) |-> entries[i].role]

\* C1 as stated: every call to route_query appends exactly two entries, a
\* user entry then an assistant entry, when the candidate list is non-empty,
\* and exactly one user entry when it is empty.
C1_TwoEntriesWheneverCandidates ==
    [][call'.op = "route_query" =>
          /\ IsPrefix(conversation_history, conversation_history')
          /\ Roles(Added(conversation_history, conversation_history')) =
                IF call'.candidates # << >> THEN << "user", "assistant" >>
                ELSE << "user" >>]_vars

\* C1 amended: a call to route_query appends a user entry then an assistant
\* entry when the candidate list is non-empty and the primary agent's process
\* returns; it appends the user entry alone when the candidate list is empty
\* or the primary agent's process raises.
C1_HistoryEntriesPerCall ==
    [][call'.op = "route_query" =>
          /\ IsPrefix(conversation_history, conversation_history')
          /\ Roles(Added(conversation_history, conversation_history')) =
                IF call'.candidates # << >> /\ ret'.kind = "return"
                THEN << "user", "assistant" >>
                ELSE << "user" >>
          /\ Added(conversation_history, conversation_history')[1].content = call'.query]_vars

\* a second query answered by an agent, after a first one
C1_Witness ==
    /\ call.op = "route_query"
    /\ call.candidates # << >>
    /\ ret.kind = "return"
    /\ Len(conversation_history) >= 3
    /\ conversation_history[Len(conversation_history)].role = "assistant"
    /\ conversation_history[Len(conversation_history) - 1].role = "user"

\* the primary agent's process raised: only the user turn was recorded
C1_PrimaryRaisedOneEntry ==
    /\ call.op = "route_query"
    /\ call.candidates # << >>
    /\ ret.kind = "raise"
    /\ conversation_history[Len(conversation_history)].role = "user"

\* the route_query call the ghost variables describe ended with the primary
\* agent's process raising
PrimaryProcessRaised ==
    /\ call.candidates # << >>
    /\ \E i \in 1..Len(trace) :
          /\ trace[i].ev = "process"
          /\ trace[i].agent = call.candidates[1]
          /\ trace[i].raised
          /\ \A j \in 1..(i - 1) : trace[j].ev # "process"

\* some nested call other than that one failed: a secondary candidate's
\* process or a receive_message of the collaboration
OtherCallRaised ==
    \E i \in 1..Len(trace) :
        /\ trace[i].ev # "route"
        /\ trace[i].raised
        /\ \E j \in 1..(i - 1) : trace[j].ev = "process"

EnvelopeKeys == {"primary_agent", "collaborating_agents", "response", "context"}

\* C2: route_query raises to its caller only when the primary agent's process
\* raises, and then it does; a failure of the router, of a secondary candidate
\* or of a collaboration target is absorbed and the call returns an envelope
\* with primary_agent, collaborating_agents, response and context.
C2_RaisesOnlyForPrimary ==
    call.op = "route_query" =>
        /\ ret.kind \in {"return", "raise"}
        /\ (ret.kind = "raise") <=> PrimaryProcessRaised
        /\ ret.kind = "return" =>
              /\ DOMAIN ret.value = EnvelopeKeys
              /\ DOMAIN ret.value.response = {"success", "data", "message", "follow_up"}
              /\ ret.value.context.conversation_history = conversation_history

\* a call that returned although a nested call other than the primary's
\* process failed
C2_Witness ==
    /\ call.op = "route_query"
    /\ ret.kind = "return"
    /\ OtherCallRaised

\* C3: without clear_context no operation removes, reorders or rewrites an
\* entry of the conversation history: the history before is a prefix of the
\* history after.
C3_HistoryAppendOnly ==
    [][call'.op # "clear_context" =>
          IsPrefix(conversation_history, conversation_history')]_vars

\* a later call found earlier turns in the history and kept them
C3_Witness ==
    /\ call.op \in {"route_query", "route_message", "register_agent"}
    /\ Len(conversation_history) >= 3
    /\ conversation_history[1].role = "user"
    /\ \E i \in 2..Len(conversation_history) : conversation_history[i].role = "user"

\* what semantic_router.route returned to the route_query call described by
\* the ghost variables (the first nested call of every route_query)
Routed == trace[1].result

\* the test of _select_agents on the router's result
RouterAccepted ==
    /\ Routed.agent # "none"
    /\ \E i \in 1..Len(agents) : agents[i].name = Routed.agent
    /\ Routed.confidence > 30

RegisteredObjs == {agents[i].agent : i \in 1..Len(agents)}

RegisteredAt(o) == CHOOSE i \in 1..Len(agents) : agents[i].agent = o

\* the agent's own score for the query of the call
Score(o) == can_handle(ClassOf[o], "", [query |-> call.query])

\* what per-agent scoring must select, stated on the scores: nothing when no
\* registered agent scores above 0.3; otherwise a best-scoring agent first,
\* followed by a best-scoring one of the others exactly when that one also
\* scores above 0.3 and less than 0.2 below the first
IsKeywordSelection(c) ==
    LET above == {o \in RegisteredObjs : Score(o) > 30}
    IN  /\ \A i \in 1..Len(c) : c[i] \in above
        /\ Len(c) <= 2
        /\ above = {} <=> c = << >>
        /\ c # << >> => \A o \in RegisteredObjs : Score(o) <= Score(c[1])
        /\ c # << >> =>
              LET others == above \ {c[1]}
              IN  IF \E o \in others : Score(c[1]) - Score(o) < 20
                  THEN /\ Len(c) = 2
                       /\ c[2] \in others
                       /\ \A o \in others : Score(o) <= Score(c[2])
                  ELSE Len(c) = 1

\* C4: when the router returns a registered agent with confidence above 0.3
\* the candidate list is that agent alone, whatever the agents' can_handle
\* scores: it is the primary agent and collaborating_agents is empty.  A
\* confidence of exactly 0.3, 'none' or an unregistered id is not accepted and
\* the candidates are those of per-agent scoring.
C4_RouterResultAccepted ==
    call.op = "route_query" =>
        IF RouterAccepted
        THEN /\ call.candidates = << RegGet(agents, Routed.agent) >>
             /\ ret.kind = "return" =>
                   /\ ret.value.primary_agent = Routed.agent
                   /\ ret.value.collaborating_agents = << >>
        ELSE IsKeywordSelection(call.candidates)

\* the router's agent answered although another registered agent scores the
\* query higher
C4_Witness ==
    /\ call.op = "route_query"
    /\ RouterAccepted
    /\ ret.kind = "return"
    /\ ret.value.primary_agent = Routed.agent
    /\ \E o \in RegisteredObjs : Score(o) > Score(call.candidates[1]) /\ Score(o) > 30

\* the router named a registered agent with confidence exactly 0.3
C4_WitnessAtThreshold ==
    /\ call.op = "route_query"
    /\ Routed.confidence = 30
    /\ \E i \in 1..Len(agents) : agents[i].name = Routed.agent
    /\ call.candidates = << >>

\* C5: when the router's result is not accepted, every registered agent is
\* scored with can_handle("", context); those above 0.3 are kept; the two
\* highest are returned when the top two scores differ by less than 0.2,
\* otherwise the highest alone, and the empty list when none is above 0.3.
\* The first returned agent has the maximum score among registered agents.
C5_KeywordSelection ==
    (call.op = "route_query" /\ ~RouterAccepted) =>
        /\ IsKeywordSelection(call.candidates)
        /\ \A i, j \in 1..Len(call.candidates) :
              i < j => Score(call.candidates[i]) >= Score(call.candidates[j])

\* three registered agents score above 0.3 and the two best were returned,
\* the first registered of them not being the best
C5_Witness ==
    /\ call.op = "route_query"
    /\ ~RouterAccepted
    /\ Cardinality({o \in RegisteredObjs : Score(o) > 30}) = 3
    /\ Len(call.candidates) = 2
    /\ Score(agents[1].agent) < Score(call.candidates[1])

\* one agent returned because the second best is 0.2 or more below
C5_WitnessSingle ==
    /\ call.op = "route_query"
    /\ ~RouterAccepted
    /\ Cardinality({o \in RegisteredObjs : Score(o) > 30}) >= 2
    /\ Len(call.candidates) = 1

\* the query of the call scores above 0.3 for both the billing agent and the
\* EV agent, both registered, with scores less than 0.2 apart
BillingEvMix ==
    /\ call.op = "route_query"
    /\ {"billing1", "ev1"} \subseteq RegisteredObjs
    /\ Score("billing1") > 30
    /\ Score("ev1") > 30
    /\ Score("billing1") - Score("ev1") < 20
    /\ Score("ev1") - Score("billing1") < 20

\* of the two, the higher-scoring one, the first registered on equal scores
MixPrimary ==
    IF Score("billing1") > Score("ev1") THEN "billing1"
    ELSE IF Score("ev1") > Score("billing1") THEN "ev1"
    ELSE IF RegisteredAt("billing1") < RegisteredAt("ev1") THEN "billing1" ELSE "ev1"

MixSecondary == IF MixPrimary = "billing1" THEN "ev1" ELSE "billing1"

CollaboratorNames ==
    [i \in 1..Len(ret.value.collaborating_agents) |->
        ret.value.collaborating_agents[i].agent]

\* C6 as stated: for a query whose billing and EV confidences are within 0.2
\* of each other, route_query selects both agents: the primary agent of the
\* result is the higher-scoring one and collaborating_agents holds exactly one
\* entry, for the other.
C6_BillingEvBothSelected ==
    BillingEvMix =>
        /\ ret.kind = "return"
        /\ ret.value.primary_agent \in {"billing_agent", "ev_agent"}
        /\ Score(call.candidates[1]) >= Score(MixSecondary)
        /\ Len(ret.value.collaborating_agents) = 1
        /\ {ret.value.primary_agent, CollaboratorNames[1]} = {"billing_agent", "ev_agent"}

\* no other registered agent scores as high as the two
NoThirdAsHigh ==
    \A o \in RegisteredObjs \ {"billing1", "ev1"} :
        Score(o) < Score("billing1") /\ Score(o) < Score("ev1")

SecondaryProcessRaised ==
    \E i \in 1..Len(trace) :
        trace[i].ev = "process" /\ trace[i].agent = MixSecondary /\ trace[i].raised

\* C6 amended: for such a query, when the router's result is not accepted and
\* no other registered agent scores as high as the two, both agents are the
\* candidates, the higher-scoring first (the first registered on equal
\* scores).  When the primary agent's process returns, it is the primary
\* agent of the result and collaborating_agents holds exactly one entry, for
\* the other, if the other's process returns and no entry if it raises.
C6_BothSelectedWhenRouterDeclines ==
    (BillingEvMix /\ ~RouterAccepted /\ NoThirdAsHigh) =>
        /\ call.candidates = << MixPrimary, MixSecondary >>
        /\ ret.kind = "return" =>
              /\ ret.value.primary_agent = NameOf[MixPrimary]
              /\ CollaboratorNames =
                    IF SecondaryProcessRaised THEN << >> ELSE << NameOf[MixSecondary] >>
        /\ ret.kind = "raise" => PrimaryProcessRaised

\* both answered: the EV agent, registered first, with the billing agent as
\* its one collaborator
C6_Witness ==
    /\ BillingEvMix
    /\ ~RouterAccepted
    /\ ret.kind = "return"
    /\ ret.value.primary_agent = "ev_agent"
    /\ CollaboratorNames = << "billing_agent" >>
    /\ Cardinality(RegisteredObjs) = 3

\* the router's keyword fallback named the billing agent for such a query
\* and the billing agent answered alone
C6_RouterPreempts ==
    /\ BillingEvMix
    /\ RouterAccepted
    /\ call.candidates = << "billing1" >>
    /\ ret.kind = "return"
    /\ ret.value.collaborating_agents = << >>

\* C7: when no candidate clears the threshold route_query returns the fixed
\* fallback envelope (primary_agent 'orchestrator', success true, empty data,
\* no collaborating agents, three follow-up suggestions) and changes nothing
\* but the history, to which it appends the user turn alone: no agent's
\* process or receive_message is called, user_profile, session_data and every
\* agent's private context are unchanged.
C7_FallbackEnvelope ==
    [][(call'.op = "route_query" /\ call'.candidates = << >>) =>
          /\ ret'.kind = "return"
          /\ ret'.value.primary_agent = "orchestrator"
          /\ ret'.value.collaborating_agents = << >>
          /\ ret'.value.response.success = TRUE
          /\ ret'.value.response.data = EmptyDict
          /\ Len(ret'.value.response.follow_up) = 3
          /\ Len(conversation_history') = Len(conversation_history) + 1
          /\ IsPrefix(conversation_history, conversation_history')
          /\ conversation_history'[Len(conversation_history')].role = "user"
          /\ conversation_history'[Len(conversation_history')].content = call'.query
          /\ \A i \in 1..Len(trace') : trace'[i].ev = "route"
          /\ UNCHANGED << user_profile, session_data, agent_context, agents, message_bus >>
    ]_vars

\* the fallback was returned with agents registered, a profile learnt from an
\* earlier answer and that answer's turns in the history
C7_Witness ==
    /\ call.op = "route_query"
    /\ call.candidates = << >>
    /\ agents # << >>
    /\ ret.value.primary_agent = "orchestrator"
    /\ user_profile # EmptyDict
    /\ Len(conversation_history) = 3

\* C8: when a secondary candidate's process raises, route_query does not
\* raise: it returns the primary agent's response, and collaborating_agents
\* has an entry for exactly the secondary candidates whose process returned,
\* in candidate order.
C8_SecondaryFailureOmitted ==
    (call.op = "route_query" /\ Len(call.candidates) >= 2 /\ ~PrimaryProcessRaised) =>
        LET returned(o) ==
                \E i \in 1..Len(trace) :
                    trace[i].ev = "process" /\ trace[i].agent = o /\ ~trace[i].raised
            primary == CHOOSE i \in 1..Len(trace) :
                          trace[i].ev = "process" /\ trace[i].agent = call.candidates[1]
        IN  /\ ret.kind = "return"
            /\ ret.value.primary_agent = NameOf[call.candidates[1]]
            /\ ~needs_collaboration(trace[primary].value) =>
                  ret.value.response = trace[primary].value
            /\ CollaboratorNames =
                  IF returned(call.candidates[2])
                  THEN << NameOf[call.candidates[2]] >> ELSE << >>
            /\ \A i \in 1..Len(CollaboratorNames) :
                  \E j \in 1..Len(trace) :
                      /\ trace[j].ev = "process"
                      /\ NameOf[trace[j].agent] = CollaboratorNames[i]
                      /\ ret.value.collaborating_agents[i].data = trace[j].value.data

\* the secondary candidate's process raised and the primary's answer was
\* returned without a collaborator
C8_Witness ==
    /\ call.op = "route_query"
    /\ Len(call.candidates) = 2
    /\ ret.kind = "return"
    /\ ret.value.collaborating_agents = << >>
    /\ \E i \in 1..Len(trace) :
          trace[i].ev = "process" /\ trace[i].agent = call.candidates[2] /\ trace[i].raised

\* the receive_message calls the last call made on agent object o
Deliveries(tr, o) ==
    {i \in 1..Len(tr) : tr[i].ev = "receive_message" /\ tr[i].agent = o}

\* C9: route_message with to_agent "*" and message_type 'context' delivers the
\* message once to every registered agent whose name differs from from_agent
\* and to no other.  Afterwards each recipient (receiving with
\* BaseAgent.receive_message) holds every key of the payload with the payload's
\* value and keeps its other keys; the context of the sender, as of every
\* agent that is not a recipient, is unchanged.
C9_BroadcastContext ==
    [][(/\ call'.op = "route_message"
        /\ call'.message.to_agent = "*"
        /\ call'.message.message_type = "context") =>
          \A o \in AgentObjs :
             LET recipient == /\ \E i \in 1..Len(agents) : agents[i].agent = o
                              /\ NameOf[o] # call'.message.from_agent
                 payload == call'.message.payload
             IN  /\ Cardinality(Deliveries(trace', o)) = IF recipient THEN 1 ELSE 0
                 /\ \A i \in Deliveries(trace', o) : trace'[i].message = call'.message
                 /\ ~recipient => agent_context'[o] = agent_context[o]
                 /\ (recipient /\ IsDict(payload) /\ ClassOf[o] # "StubAgent") =>
                       /\ DOMAIN agent_context'[o] = DOMAIN agent_context[o] \cup DOMAIN payload
                       /\ \A k \in DOMAIN payload : agent_context'[o][k] = payload[k]
                       /\ \A k \in DOMAIN agent_context[o] \ DOMAIN payload :
                             agent_context'[o][k] = agent_context[o][k]
    ]_vars

\* a registered sender broadcast a payload to a recipient that held one of its
\* keys with another value and a key the payload does not name
C9_Witness ==
    /\ call.op = "route_message"
    /\ call.message.to_agent = "*"
    /\ call.message.message_type = "context"
    /\ call.message.payload = [a |-> 1]
    /\ \E i \in 1..Len(agents) : agents[i].name = call.message.from_agent
    /\ \E o \in AgentObjs :
          /\ Deliveries(trace, o) # {}
          /\ agent_context[o] = [a |-> 1, b |-> 1]
    /\ \E o \in AgentObjs :
          /\ NameOf[o] = call.message.from_agent
          /\ \E i \in 1..Len(agents) : agents[i].agent = o
          /\ agent_context[o] = EmptyDict

\* C10: during a broadcast, when receive_message of one recipient raises,
\* route_message does not raise and every other registered agent but the
\* sender still receives the message, wherever the failing recipient stands
\* in the registry.
C10_BroadcastSurvivesFailure ==
    (call.op = "route_message" /\ call.message.to_agent = "*") =>
        /\ ret.kind = "return"
        /\ \A i \in 1..Len(agents) :
              agents[i].name # call.message.from_agent =>
                 \E j \in 1..Len(trace) :
                    /\ trace[j].ev = "receive_message"
                    /\ trace[j].agent = agents[i].agent
                    /\ trace[j].message = call.message
                    /\ (~trace[j].raised /\ call.message.message_type = "context") =>
                          \A k \in DOMAIN call.message.payload :
                             agent_context[agents[i].agent][k] = call.message.payload[k]
        /\ Len(trace) =
              Cardinality({i \in 1..Len(agents) : agents[i].name # call.message.from_agent})

\* a recipient failed between one that had received before it and one that
\* received after it
C10_Witness ==
    /\ call.op = "route_message"
    /\ call.message.to_agent = "*"
    /\ Len(trace) = 3
    /\ ~trace[1].raised
    /\ trace[2].raised
    /\ ~trace[3].raised

\* C11: clear_context leaves the conversation history, user_profile and
\* session_data empty and the private context of every registered agent
\* empty, and does not change the registry.
C11_ClearContextResets ==
    [][call'.op = "clear_context" =>
          /\ conversation_history' = << >>
          /\ user_profile' = EmptyDict
          /\ session_data' = EmptyDict
          /\ \A i \in 1..Len(agents') : agent_context'[agents'[i].agent] = EmptyDict
          /\ agents' = agents
          /\ message_bus' = message_bus
          /\ ret'.kind = "return"
    ]_vars

\* clear_context found a registered agent holding context
C11_Witness ==
    /\ call.op = "clear_context"
    /\ \E i \in 1..Len(agents) : agents[i].agent \in call.held
    /\ conversation_history = << >>

\* clear_context found turns in the history
C11_WitnessHistory ==
    /\ call.op = "clear_context"
    /\ call.turns >= 2
    /\ agents # << >>


\* C12: the registry holds exactly one entry per distinct agent id; a
\* register_agent call maps the id to the agent just registered, leaves the
\* other entries alone, adds an entry only for a new id, returns without
\* raising, and the agent's message_bus is set and stays set.
C12_RegistryOnePerId ==
    [][/\ \A i, j \in 1..Len(agents') : agents'[i].name = agents'[j].name => i = j
       /\ \A o \in AgentObjs : message_bus[o] => message_bus'[o]
       /\ call'.op = "register_agent" =>
            LET obj == call'.agent
                name == NameOf[obj]
            IN  /\ ret'.kind = "return"
                /\ message_bus'[obj]
                /\ RegNames(agents') = RegNames(agents) \cup {name}
                /\ RegGet(agents', name) = obj
                /\ \A n \in RegNames(agents) \ {name} : RegGet(agents', n) = RegGet(agents, n)
                /\ Len(agents') = IF name \in RegNames(agents) THEN Len(agents) ELSE Len(agents) + 1
    ]_vars

\* a second agent was registered under an id already in the registry
C12_Witness ==
    /\ call.op = "register_agent"
    /\ call.agent = "base1"
    /\ Len(agents) = 2
    /\ RegGet(agents, "billing_agent") = "base1"
    /\ message_bus["billing1"]
    /\ message_bus["base1"]


(***************************************************************************)
(* The router alone: route() and _fallback_route() applied to one input    *)
(***************************************************************************)
MaxWords == 2

\* fragments the fallback queries are built from
FallbackWords ==
    {"FATURA", "pagar a conta", "carro", "Tesla EV", "solar", "avaria", "evento", "xyz"}

JoinWords(p, w) == IF p = "" THEN w ELSE p \o " " \o w

RECURSIVE Phrases(_)
Phrases(n) ==
    IF n = 0 THEN {""}
    ELSE LET P == Phrases(n - 1)
         IN  P \cup {JoinWords(p, w) : p \in P, w \in FallbackWords}

FallbackQueries == Phrases(MaxWords)

RouterInputs ==
    {[op |-> "route", query |-> q, llm |-> l] : q \in Queries, l \in LLMOutcomes}
    \cup {[op |-> "_fallback_route", query |-> q] : q \in FallbackQueries}

InitRouter ==
    /\ agents = << >>
    /\ message_bus = [o \in AgentObjs |-> FALSE]
    /\ agent_context = [o \in AgentObjs |-> EmptyDict]
    /\ conversation_history = << >>
    /\ user_profile = EmptyDict
    /\ session_data = EmptyDict
    /\ call \in RouterInputs
    /\ ret = [kind |-> "pending"]
    /\ trace = << >>
    /\ ncalls = 0
    /\ frames = NoFrames
    /\ ticket_store = SupportInit
    /\ draws = FirstDraws

\* semantic_router.route(query)
Route ==
    /\ call.op = "route"
    /\ ret.kind = "pending"
    /\ ret' = [kind |-> "return", value |-> route(call.query, call.llm)]
    /\ ncalls' = ncalls + 1
    /\ UNCHANGED << ticket_store, draws, frames, agents, message_bus, agent_context,
                    conversation_history, user_profile, session_data, call, trace >>

\* semantic_router._fallback_route(query)
FallbackRoute ==
    /\ call.op = "_fallback_route"
    /\ ret.kind = "pending"
    /\ ret' = [kind |-> "return", value |-> fallback_route(call.query)]
    /\ ncalls' = ncalls + 1
    /\ UNCHANGED << ticket_store, draws, frames, agents, message_bus, agent_context,
                    conversation_history, user_profile, session_data, call, trace >>

NextRouter == Route \/ FallbackRoute

SpecRouter == InitRouter /\ [][NextRouter]_vars

RouteReturned == call.op = "route" /\ ret.kind # "pending"

\* the model call failed or its content could not be used
RouteFailed ==
    \/ call.llm.kind \in {"exception", "status", "nochoices", "notdict", "text"}
    \/ call.llm.kind = "json" /\ ~call.llm.numeric
    \/ call.llm.kind = "json" /\ call.llm.agent \notin DescribedAgents \cup {"none"}

NamesAnAgent == call.llm.kind = "text" /\ call.llm.mentions # {}

\* C13 as stated: route never raises, and for every failed or unparseable
\* outcome of the model call it returns the result of _fallback_route(query).
C13_FailureGivesFallback ==
    RouteReturned =>
        /\ ret.kind = "return"
        /\ RouteFailed => ret.value = fallback_route(call.query)

\* C13: route never raises; for every failed or unparseable outcome of the
\* model call it returns the result of _fallback_route(query), except that
\* content which is not JSON but contains a described agent id gives the
\* first such id in the order of agent_descriptions with confidence 0.8.
C13_FailureGivesFallbackUnlessNamed ==
    RouteReturned =>
        /\ ret.kind = "return"
        /\ RouteFailed /\ ~NamesAnAgent => ret.value = fallback_route(call.query)
        /\ NamesAnAgent =>
              /\ ret.value.confidence = 80
              /\ ret.value.agent \in call.llm.mentions
              /\ \A i, j \in 1..Len(agent_descriptions) :
                    agent_descriptions[i] \in call.llm.mentions
                       /\ agent_descriptions[j] = ret.value.agent => j <= i

\* the model call raised and the keyword fallback found an agent
C13_Witness ==
    /\ RouteReturned
    /\ call.llm.kind = "exception"
    /\ ret.value = [agent |-> "billing_agent", confidence |-> 100]

\* content that is not JSON names two agents; the keyword fallback differs
C13_WitnessNamed ==
    /\ RouteReturned
    /\ call.llm.kind = "text"
    /\ call.llm.mentions = {"solar_agent", "ev_agent"}
    /\ ret.value = [agent |-> "ev_agent", confidence |-> 80]
    /\ fallback_route(call.query).agent = "billing_agent"

\* C14: route returns (agent, confidence) with agent one of the four
\* described ids or "none" and 0 <= confidence <= 1, whatever the outcome
\* of the model call.
C14_RouteInRange ==
    RouteReturned =>
        /\ ret.value.agent \in DescribedAgents \cup {"none"}
        /\ 0 <= ret.value.confidence
        /\ ret.value.confidence <= 100


FallbackReturned == call.op = "_fallback_route" /\ ret.kind # "pending"

\* the number of keywords of the i-th domain that occur in lower-cased q
DomainCount(q, i) == Matches(fallback_keywords[i].words, Lower(q))

\* C15: _fallback_route counts, per domain in the order billing, ev, solar,
\* support, the keywords occurring in the lower-cased query; it returns the
\* domain with the highest count, the first of them on a tie, with
\* confidence min(count/2, 1.0), and ("none", 0.0) when every count is
\* zero; the confidence never exceeds 1.0, and a query extended by a
\* fragment that leaves the winner in place never has a lower confidence.
C15_FallbackCounts ==
    FallbackReturned =>
        LET q == call.query
            D == 1..Len(fallback_keywords)
        IN  /\ (\A i \in D : DomainCount(q, i) = 0) =>
                   ret.value = [agent |-> "none", confidence |-> 0]
            /\ (\E i \in D : DomainCount(q, i) > 0) =>
                   \E d \in D :
                      /\ ret.value.agent = fallback_keywords[d].agent
                      /\ \A j \in D : DomainCount(q, j) <= DomainCount(q, d)
                      /\ \A j \in 1..(d - 1) : DomainCount(q, j) < DomainCount(q, d)
                      /\ ret.value.confidence = Min((100 * DomainCount(q, d)) \div 2, 100)
            /\ ret.value.confidence <= 100
            /\ \A w \in FallbackWords :
                   LET more == fallback_route(JoinWords(q, w))
                   IN  more.agent = ret.value.agent =>
                          more.confidence >= ret.value.confidence

\* two domains tie on two keywords each and the earlier one is returned
C15_Witness ==
    /\ FallbackReturned
    /\ DomainCount(call.query, 1) = 2
    /\ DomainCount(call.query, 2) = 2
    /\ ret.value = [agent |-> "billing_agent", confidence |-> 100]

\* three keywords of one domain: the confidence is capped
C15_WitnessCapped ==
    /\ FallbackReturned
    /\ DomainCount(call.query, 1) = 3
    /\ ret.value.confidence = 100


(***************************************************************************)
(* One agent alone: can_handle, receive_message and process applied to     *)
(* one input                                                               *)
(***************************************************************************)
ConcreteClasses == {"BillingAgent", "EVAgent", "SolarAgent", "SupportAgent"}

\* the intent labels the can_handle methods test for
CanonicalLabels(cls) ==
    CASE cls = "BillingAgent" -> {"get_invoice", "get_consumption"}
      [] cls = "EVAgent"      -> {"ev_charging", "carregar_carro"}
      [] cls = "SolarAgent"   -> {"solar_production", "autoconsumo"}
      [] cls = "SupportAgent" -> {"report_fault", "technical_support", "check_ticket", "schedule_visit"}
      [] OTHER                -> {}

KeywordsOf(cls) ==
    CASE cls = "BillingAgent" -> billing_keywords
      [] cls = "EVAgent"      -> ev_keywords
      [] cls = "SolarAgent"   -> solar_keywords
      [] cls = "SupportAgent" -> support_keywords
      [] OTHER                -> << >>

Intents ==
    UNION {CanonicalLabels(cls) : cls \in ConcreteClasses} \cup {"general", ""}

\* context=None and context={} both give the query ""
HandleContexts == {EmptyDict} \cup {[query |-> q] : q \in Queries}

CanHandleInputs ==
    {[op |-> "can_handle", cls |-> cls, intent |-> i, context |-> c] :
        cls \in ConcreteClasses \cup {"BaseAgent"}, i \in Intents, c \in HandleContexts}

\* the request types some agent of the repository answers, one nobody does,
\* and None
RequestTypes ==
    {"get_customer_value", "get_consumption_pattern", "get_ev_impact_on_bill",
     "get_solar_contribution", "get_technician_availability", "check_pending_tickets",
     "get_customer_issues_history", "get_weather", None}

RequestPayloads ==
    {[request_type |-> t] : t \in RequestTypes}
    \cup {EmptyDict, [request_type |-> "get_customer_value", customer |-> 7], NonePayload}

\* the agents of the repository, one object each
RepositoryAgents == {"billing1", "ev1", "solar1", "support1", "base1"}

ReceiveInputs ==
    {[op |-> "receive_message", agent |-> o,
      message |-> AgentMessage(f, NameOf[o], t, p)] :
        o \in RepositoryAgents, f \in {"ev_agent", "user"},
        t \in {"request"}, p \in RequestPayloads}
    \cup {[op |-> "receive_message", agent |-> o,
           message |-> AgentMessage("user", NameOf[o], t, [a |-> 1])] :
        o \in RepositoryAgents, t \in {"context", "notification"}}

ProcessContexts == {EmptyDict, [location |-> "Porto"]}

ProcessInputs ==
    {[op |-> "process", agent |-> o, query |-> q, context |-> c] :
        o \in RepositoryAgents, q \in Queries, c \in ProcessContexts}

AgentInputs == CanHandleInputs \cup ReceiveInputs \cup ProcessInputs

InitAgent ==
    /\ agents = << >>
    /\ message_bus = [o \in AgentObjs |-> FALSE]
    /\ agent_context = [o \in AgentObjs |-> EmptyDict]
    /\ conversation_history = << >>
    /\ user_profile = EmptyDict
    /\ session_data = EmptyDict
    /\ call \in AgentInputs
    /\ ret = [kind |-> "pending"]
    /\ trace = << >>
    /\ ncalls = 0
    /\ frames = NoFrames
    /\ ticket_store = SupportInit
    /\ draws = FirstDraws

\* agent.can_handle(intent, context)
CanHandle ==
    /\ call.op = "can_handle"
    /\ ret.kind = "pending"
    /\ ret' = [kind |-> "return", value |-> can_handle(call.cls, call.intent, call.context)]
    /\ ncalls' = ncalls + 1
    /\ UNCHANGED << ticket_store, draws, frames, agents, message_bus, agent_context,
                    conversation_history, user_profile, session_data, call, trace >>

\* agent.receive_message(message)
ReceiveMessage ==
    /\ call.op = "receive_message"
    /\ ret.kind = "pending"
    /\ LET r == receive_message(World,
                                call.agent, call.message)
       IN  /\ agent_context' = r.w.agent_context
           /\ trace' = r.w.trace
           /\ ret' = IF r.raised THEN [kind |-> "raise", value |-> r.value]
                     ELSE [kind |-> "return", value |-> r.value]
    /\ ncalls' = ncalls + 1
    /\ UNCHANGED << ticket_store, draws, frames, agents, message_bus, conversation_history,
                    user_profile, session_data, call >>

\* agent.process(query, context) on a freshly constructed agent
Process(rnd) ==
    /\ call.op = "process"
    /\ ret.kind = "pending"
    /\ LET w == World
           r == IF ClassOf[call.agent] = "SupportAgent"
                THEN SupportAgent_process(w, agents, message_bus, call.agent,
                                          call.query, call.context, SupportInit, rnd)
                ELSE process(w, agents, message_bus, call.agent, call.query, call.context)
       IN  /\ agent_context' = r.w.agent_context
           /\ trace' = r.w.trace
           /\ ret' = IF r.raised THEN [kind |-> "raise", value |-> r.value]
                     ELSE IF ClassOf[call.agent] = "SupportAgent"
                     THEN [kind |-> "return", value |-> r.value, support |-> r.support]
                     ELSE [kind |-> "return", value |-> r.value]
    /\ ncalls' = ncalls + 1
    /\ UNCHANGED << ticket_store, draws, frames, agents, message_bus, conversation_history,
                    user_profile, session_data, call >>

NextAgent == CanHandle \/ ReceiveMessage \/ \E rnd \in RandomDraws : Process(rnd)

SpecAgent == InitAgent /\ [][NextAgent]_vars

CanHandleReturned ==
    call.op = "can_handle" /\ call.cls \in ConcreteClasses /\ ret.kind # "pending"

\* the number of the class's keywords occurring in the lower-cased query
KeywordHits == Matches(KeywordsOf(call.cls), Lower(DictGet(call.context, "query", "")))

\* C16: for each of the four agents can_handle returns a value in [0, 1];
\* 0.0 when no keyword of the agent occurs in the query and the intent is
\* not one of its canonical labels, at least 0.4 when a keyword occurs, and
\* at least 0.9 when the intent is a canonical label.
C16_CanHandleRange ==
    CanHandleReturned =>
        /\ ret.kind = "return"
        /\ 0 <= ret.value /\ ret.value <= 100
        /\ KeywordHits = 0 /\ call.intent \notin CanonicalLabels(call.cls) => ret.value = 0
        /\ KeywordHits > 0 => ret.value >= 40
        /\ call.intent \in CanonicalLabels(call.cls) => ret.value >= 90

\* three keywords occur and the intent is not canonical
C16_Witness ==
    /\ CanHandleReturned
    /\ KeywordHits >= 3
    /\ call.intent = "general"
    /\ ret.value = 100

\* the solar agent, one keyword, no canonical intent
C16_WitnessSolar ==
    /\ CanHandleReturned
    /\ call.cls = "SolarAgent"
    /\ KeywordHits = 1
    /\ call.intent = "general"
    /\ ret.value = 50

\* no keyword, canonical intent
C16_WitnessIntent ==
    /\ CanHandleReturned
    /\ KeywordHits = 0
    /\ call.intent \in CanonicalLabels(call.cls)
    /\ ret.value = 90


\* the request types the _handle_request of a class answers itself
Recognised(cls) ==
    CASE cls = "BillingAgent" -> {"get_customer_value", "get_consumption_pattern"}
      [] cls = "EVAgent"      -> {"get_ev_impact_on_bill"}
      [] cls = "SolarAgent"   -> {"get_solar_contribution"}
      [] cls = "SupportAgent" -> {"get_technician_availability", "check_pending_tickets",
                                  "get_customer_issues_history"}
      [] OTHER                -> {}

\* a request whose payload is a dict was received
RequestReceived ==
    /\ call.op = "receive_message"
    /\ ret.kind # "pending"
    /\ call.message.message_type = "request"
    /\ IsDict(call.message.payload)

RequestType == DictGet(call.message.payload, "request_type", None)

\* C17: for every agent, receive_message of a request returns a message
\* with from_agent the agent's id, to_agent the request's from_agent and
\* message_type "response"; its payload is exactly {status:
\* "not_implemented"} if and only if the payload's request_type is not one
\* the agent recognises.
C17_RequestAnswered ==
    RequestReceived =>
        /\ ret.kind = "return"
        /\ ret.value.from_agent = NameOf[call.agent]
        /\ ret.value.to_agent = call.message.from_agent
        /\ ret.value.message_type = "response"
        /\ (ret.value.payload = [status |-> "not_implemented"])
              <=> (RequestType \notin Recognised(ClassOf[call.agent]))

\* a recognised request type was answered with data
C17_Witness ==
    /\ RequestReceived
    /\ ClassOf[call.agent] = "SupportAgent"
    /\ RequestType = "check_pending_tickets"
    /\ call.message.from_agent = "ev_agent"
    /\ ret.value.to_agent = "ev_agent"
    /\ ret.value.payload.ticket_count = 2

\* a request type another agent recognises was declined
C17_WitnessDeclined ==
    /\ RequestReceived
    /\ ClassOf[call.agent] = "EVAgent"
    /\ RequestType = "get_customer_value"
    /\ ret.value.payload = [status |-> "not_implemented"]


\* the dispatch groups of a class, in the order of its if/elif chain
GroupsOf(cls) ==
    CASE cls = "BillingAgent" -> billing_groups
      [] cls = "EVAgent"      -> ev_groups
      [] cls = "SolarAgent"   -> solar_groups
      [] cls = "SupportAgent" -> support_groups
      [] OTHER                -> << >>

\* per class and group, a key of `data` that only its sub-operation returns
DataKeyOf(cls) ==
    CASE cls = "BillingAgent" -> << "invoice", "consumption", "prediction", "comparison",
                                    "details", "payment_methods" >>
      [] cls = "EVAgent"      -> << "optimization", "costs", "stations" >>
      [] cls = "SolarAgent"   -> << "production", "sales", "savings", "forecast" >>
      [] cls = "SupportAgent" -> << "issue_type", "ticket", "scheduled_date", "matched",
                                    "outage_detected" >>
      [] OTHER                -> << >>

\* the data of the generic help response of a class
HelpData(cls) ==
    CASE cls = "BillingAgent" -> [agent |-> "billing"]
      [] cls = "EVAgent"      -> [agent |-> "ev"]
      [] cls = "SolarAgent"   -> [agent |-> "solar"]
      [] OTHER                -> [agent |-> "support"]

ProcessReturned ==
    /\ call.op = "process"
    /\ ClassOf[call.agent] \in ConcreteClasses
    /\ ret.kind # "pending"

\* C18: process runs the sub-operation of the first keyword group, in the
\* agent's order, that has a keyword in the lower-cased query, also when
\* keywords of later groups occur; the generic help response is returned
\* if and only if no group matches.
C18_FirstGroupWins ==
    ProcessReturned =>
        LET cls     == ClassOf[call.agent]
            groups  == GroupsOf(cls)
            hit(i)  == AnyIn(groups[i], Lower(call.query))
        IN  /\ ret.kind = "return"
            /\ \A i \in 1..Len(groups) :
                  hit(i) /\ (\A j \in 1..(i - 1) : ~hit(j)) =>
                      /\ DataKeyOf(cls)[i] \in DOMAIN ret.value.data
                      /\ \A k \in 1..Len(groups) :
                            k # i => DataKeyOf(cls)[k] \notin DOMAIN ret.value.data
            /\ (ret.value.data = HelpData(cls)) <=> (\A i \in 1..Len(groups) : ~hit(i))

\* the support agent reported an issue although the query also asks for a
\* ticket's state
C18_Witness ==
    /\ ProcessReturned
    /\ ClassOf[call.agent] = "SupportAgent"
    /\ AnyIn(support_groups[1], Lower(call.query))
    /\ AnyIn(support_groups[2], Lower(call.query))
    /\ ret.value.data.ticket_id = "AV-2024-005"
    /\ ret.support.ticket_counter = 6

\* the billing agent returned the invoice for a query that names consumption too
C18_WitnessBilling ==
    /\ ProcessReturned
    /\ ClassOf[call.agent] = "BillingAgent"
    /\ AnyIn(billing_groups[2], Lower(call.query))
    /\ "invoice" \in DOMAIN ret.value.data

\* the generic help response
C18_WitnessHelp ==
    /\ ProcessReturned
    /\ ClassOf[call.agent] = "EVAgent"
    /\ ret.value.data = [agent |-> "ev"]

\* the ticket named in the query was found
C18_WitnessTicket ==
    /\ ProcessReturned
    /\ ClassOf[call.agent] = "SupportAgent"
    /\ "ticket" \in DOMAIN ret.value.data
    /\ ret.value.data.ticket.id = "AV-2024-003"


\* the response the primary agent's process returned in the last route_query
PrimaryProcessed ==
    trace[Leftmost({i \in 1..Len(trace) : trace[i].ev = "process"})].value

\* what the collaboration step merged into the response, {} when nothing
MergedCollaboration == DictGet(ret.value.response.data, "collaboration", EmptyDict)

\* the primary's message after the collaboration merge
MergedMessage ==
    IF DOMAIN MergedCollaboration # {}
    THEN PrimaryProcessed.message \o "\n\n"
            \o generate_collaboration_message(MergedCollaboration)
    ELSE PrimaryProcessed.message

ThreadAgents == {"billing1", "ev1"}

ThreadQueries == {QInvoice, QTop2}

ThreadLLM ==
    {[kind |-> "json", agent |-> "none", confidence |-> 0, numeric |-> TRUE]}

\* the steps of route_query after the user turn was appended
LastStep == 7

\* the position of a thread that is no longer inside route_query
Done == LastStep + 1

Step(n, f) ==
    CASE n = 1 -> rq_select(f)
      [] n = 2 -> rq_primary(f)
      [] n = 3 -> rq_secondaries(f)
      [] n = 4 -> rq_collaboration(f)
      [] n = 5 -> rq_update_context(f)
      [] n = 6 -> rq_enhance(f)
      [] OTHER -> rq_finish(f)

\* the call's view of the shared objects when it takes a step
Load(f) ==
    [f EXCEPT !.history = conversation_history,
              !.profile = user_profile,
              !.w = [@ EXCEPT !.agent_context = agent_context,
                              !.support = ticket_store]]

InFlight(t) == frames[t].pc \in 1..LastStep

\* thread t enters route_query(query, {"timestamp": t}): lines 67-81
ThreadBegin(t, query, llm) ==
    /\ frames[t].pc = 0
    /\ LET f == rq_begin(query, [timestamp |-> t], llm)
       IN  /\ frames' = [frames EXCEPT
                            ![t] = [pc |-> 1, f |-> f,
                                    during |-> {u \in Threads \ {t} : InFlight(u)}]]
           /\ conversation_history' = f.history
           /\ user_profile' = f.profile
           /\ agent_context' = f.w.agent_context
           /\ ticket_store' = f.w.support
    /\ UNCHANGED << agents, message_bus, session_data, call, ret, trace, ncalls, draws >>

\* thread t takes its next step of route_query
ThreadStep(t) ==
    /\ InFlight(t)
    /\ \E f \in {Step(frames[t].pc, Load(frames[t].f))} :
           /\ frames' = [frames EXCEPT
                            ![t] = [@ EXCEPT !.f = f,
                                             !.pc = IF Running(f) THEN @ + 1 ELSE Done]]
           /\ conversation_history' = f.history
           /\ user_profile' = f.profile
           /\ agent_context' = f.w.agent_context
           /\ ticket_store' = f.w.support
    /\ UNCHANGED << agents, message_bus, session_data, call, ret, trace, ncalls, draws >>

\* the agents are registered before any thread calls
NextThreads ==
    \/ \E obj \in ThreadAgents :
          /\ \A t \in Threads : frames[t].pc = 0
          /\ NameOf[obj] \notin RegNames(agents)
          /\ RegisterAgent(obj)
    \/ \E t \in Threads, query \in ThreadQueries, llm \in ThreadLLM :
          ThreadBegin(t, query, llm)
    \/ \E t \in Threads : ThreadStep(t)

SpecThreads == Init /\ [][NextThreads]_vars

\* thread t's call returned an envelope after appending its assistant turn
Answered(t) ==
    /\ frames[t].pc = Done
    /\ frames[t].f.ret.kind = "return"
    /\ frames[t].f.candidates # << >>

\* positions of thread t's turns in the history (its timestamp is its id)
TurnsOf(t, role) ==
    {i \in 1..Len(conversation_history) :
        /\ conversation_history[i].role = role
        /\ conversation_history[i].timestamp = t}

\* some assistant turn is not immediately preceded by its own call's user turn
AssistantMisplaced ==
    \E i \in 1..Len(conversation_history) :
        /\ conversation_history[i].role = "assistant"
        /\ \/ i = 1
           \/ conversation_history[i - 1].role # "user"
           \/ conversation_history[i - 1].timestamp # conversation_history[i].timestamp

\* the user turns of two different calls are adjacent
UserTurnsAdjacent ==
    \E i \in 1..(Len(conversation_history) - 1) :
        /\ conversation_history[i].role = "user"
        /\ conversation_history[i + 1].role = "user"
        /\ conversation_history[i].timestamp # conversation_history[i + 1].timestamp

\* the keys of user_profile the response of thread t's call carries
ProfileKeysOf(t) ==
    (IF "invoice" \in DOMAIN frames[t].f.primary_response.data
     THEN {"last_invoice", "monthly_consumption"} ELSE {})
    \cup (IF "consumption" \in DOMAIN frames[t].f.primary_response.data
          THEN {"consumption_trend"} ELSE {})

\* C19: when two route_query calls interleave, a state is reachable in
\* which the history holds the two calls' user turns adjacent, some
\* assistant turn is not immediately preceded by its own call's user turn,
\* and user_profile holds values written by both calls; this is what
\* happens exactly when one call appends its user turn while the other is
\* between its user turn and its assistant turn.
C19_InterleavedHistory ==
    \A t, u \in Threads :
        t # u /\ Answered(t) /\ Answered(u) =>
            /\ (u \in frames[t].during \/ t \in frames[u].during)
                  <=> (UserTurnsAdjacent /\ AssistantMisplaced)
            /\ ProfileKeysOf(t) \cup ProfileKeysOf(u) \subseteq DOMAIN user_profile
            /\ Cardinality(TurnsOf(t, "user")) = 1
            /\ Cardinality(TurnsOf(t, "assistant")) = 1

\* both calls returned; the user turns are adjacent, an assistant turn is
\* misplaced and the profile holds the invoice of one call and the
\* consumption trend of the other
C19_Witness ==
    /\ Answered("t1") /\ Answered("t2")
    /\ UserTurnsAdjacent
    /\ AssistantMisplaced
    /\ ProfileKeysOf("t1") = {"last_invoice", "monthly_consumption"}
    /\ ProfileKeysOf("t2") = {"consumption_trend"}
    /\ DOMAIN user_profile = {"last_invoice", "monthly_consumption", "consumption_trend"}


(***************************************************************************)
(* C21: the collaboration requests of route_query                          *)
(***************************************************************************)
\* the last route_query returned and its primary response asked for collaboration
Collaborated ==
    /\ call.op = "route_query" /\ ret.kind = "return" /\ call.candidates # << >>
    /\ needs_collaboration(PrimaryProcessed)

\* the entries of the primary response's collaboration_requests that name a
\* registered agent, in their order
AddressedRequests ==
    SelectSeq(DictGet(PrimaryProcessed.data, "collaboration_requests", << >>),
              LAMBDA q : q.agent \in RegNames(agents))

\* the positions in the trace of the receive_message calls made after the last
\* process call, in their order
CollaborationCalls ==
    LET last == CHOOSE i \in 1..Len(trace) :
                    /\ trace[i].ev = "process"
                    /\ \A j \in (i + 1)..Len(trace) : trace[j].ev # "process"
    IN  [k \in 1..(Len(trace) - last) |-> last + k]

\* the registered targets whose receive_message returned
AnsweringTargets ==
    {trace[CollaborationCalls[k]].message.to_agent : k \in
        {k \in 1..Len(CollaborationCalls) : ~trace[CollaborationCalls[k]].raised}}

\* C21: when the primary response has data.needs_collaboration true,
\* route_query sends one 'request' message per entry of
\* data.collaboration_requests whose target is registered, in order, from the
\* primary agent to that target with the entry's request_type; the merged
\* data.collaboration holds exactly the targets whose receive_message
\* returned, each with the payload of the answer, and neither an unregistered
\* target nor a raising one aborts the call.
C21_CollaborationRequests ==
    Collaborated =>
        /\ Len(CollaborationCalls) = Len(AddressedRequests)
        /\ \A k \in 1..Len(AddressedRequests) :
              LET e == trace[CollaborationCalls[k]]
              IN  /\ e.ev = "receive_message"
                  /\ e.agent = RegGet(agents, AddressedRequests[k].agent)
                  /\ e.message =
                        AgentMessage(NameOf[call.candidates[1]],
                                     AddressedRequests[k].agent, "request",
                                     [request_type |-> AddressedRequests[k].request_type])
        /\ DOMAIN MergedCollaboration = AnsweringTargets
        /\ \A k \in 1..Len(CollaborationCalls) :
              LET e == trace[CollaborationCalls[k]]
              IN  ~e.raised =>
                     MergedCollaboration[e.message.to_agent] =
                        IF ClassOf[e.agent] = "BaseAgent"
                        THEN [status |-> "not_implemented"]
                        ELSE handle_request(ClassOf[e.agent], NameOf[e.agent],
                                            e.message).payload

\* a collaboration with unregistered targets and a raising target before an
\* answering one: the later answer is in the map
C21_Witness ==
    /\ Collaborated
    /\ Len(AddressedRequests) < Len(PrimaryProcessed.data.collaboration_requests)
    /\ \E k \in 1..Len(CollaborationCalls) :
          /\ trace[CollaborationCalls[k]].raised
          /\ \E m \in (k + 1)..Len(CollaborationCalls) :
                ~trace[CollaborationCalls[m]].raised
    /\ MergedCollaboration = [billing_agent |-> [status |-> "not_implemented"]]

\* a collaboration answered by the EV agent's request handler
C21_WitnessAnswer ==
    /\ Collaborated
    /\ DOMAIN MergedCollaboration = {"ev_agent"}
    /\ MergedCollaboration["ev_agent"].monthly_cost = 8550


(***************************************************************************)
(* C22: what is kept in user_profile and session_data                      *)
(***************************************************************************)
ProfileKeys == {"last_invoice", "monthly_consumption", "consumption_trend"}

\* the profile after the fields of data have been copied into profile
Copied(profile, data) ==
    [k \in DOMAIN profile
           \cup (IF "invoice" \in DOMAIN data
                 THEN {"last_invoice", "monthly_consumption"} ELSE {})
           \cup (IF "consumption" \in DOMAIN data THEN {"consumption_trend"} ELSE {}) |->
        CASE k = "last_invoice" /\ "invoice" \in DOMAIN data ->
                DictGet(data["invoice"], "amount", None)
          [] k = "monthly_consumption" /\ "invoice" \in DOMAIN data ->
                DictGet(data["invoice"], "consumption_kwh", None)
          [] k = "consumption_trend" /\ "consumption" \in DOMAIN data ->
                DictGet(data["consumption"], "trend", None)
          [] OTHER -> profile[k]]

\* the last route_query returned the answer of a primary agent
PrimaryAnswered ==
    call.op = "route_query" /\ ret.kind = "return" /\ call.candidates # << >>

\* C22: user_profile gets its entries only from route_query and only from
\* the primary response's data: 'invoice' sets last_invoice and
\* monthly_consumption, 'consumption' sets consumption_trend, nothing else is
\* copied (the one other change is clear_context emptying it).  The keys of
\* user_profile are always among last_invoice, monthly_consumption and
\* consumption_trend, the data of secondary agents never changes it, and
\* session_data stays empty.
C22_ProfileFromPrimary ==
    [][/\ DOMAIN user_profile' \subseteq ProfileKeys
       /\ session_data' = EmptyDict
       /\ IF call'.op = "route_query"
          THEN user_profile' =
                  IF PrimaryAnswered'
                  THEN Copied(user_profile, PrimaryProcessed'.data)
                  ELSE user_profile
          ELSE IF call'.op = "clear_context"
          THEN user_profile' = EmptyDict
          ELSE user_profile' = user_profile]_vars

\* a secondary agent returned an invoice and the primary did not: the profile
\* holds nothing of it
C22_Witness ==
    /\ PrimaryAnswered
    /\ \E i \in 1..Len(ret.value.collaborating_agents) :
          "invoice" \in DOMAIN ret.value.collaborating_agents[i].data
    /\ "invoice" \notin DOMAIN PrimaryProcessed.data
    /\ user_profile = EmptyDict

\* the primary agent returned an invoice: amount and consumption are kept
C22_WitnessInvoice ==
    /\ PrimaryAnswered
    /\ "invoice" \in DOMAIN PrimaryProcessed.data
    /\ user_profile = [last_invoice |-> PrimaryProcessed.data["invoice"].amount,
                       monthly_consumption |->
                           PrimaryProcessed.data["invoice"].consumption_kwh]


(***************************************************************************)
(* The billing agent's context broadcast: agents registered with an        *)
(* orchestrator, queries routed by it, and process called directly on an   *)
(* agent object, registered or not                                         *)
(***************************************************************************)
MaxBroadcastCalls == 4

BroadcastAgents == {"billing1", "ev1", "support1", "stub1"}

BroadcastQueries == {QInvoice, QCharge}

BroadcastLLM ==
    {[kind |-> "exception"],
     [kind |-> "json", agent |-> "none", confidence |-> 0, numeric |-> TRUE]}

\* agent.process(query, context) called on agent object obj by the caller
ProcessCall(obj, query, context) ==
    \E r \in {process(World,
                      agents, message_bus, obj, query, context)} :
        /\ agent_context' = r.w.agent_context
        /\ trace' = r.w.trace
        /\ call' = [op |-> "process", agent |-> obj, query |-> query, context |-> context]
        /\ ret' = IF r.raised THEN [kind |-> "raise", value |-> r.value]
                  ELSE [kind |-> "return", value |-> r.value]
        /\ ticket_store' = r.w.support
        /\ draws' \in NextDraws(r.w.trace)
        /\ ncalls' = ncalls + 1
        /\ UNCHANGED << frames, agents, message_bus, conversation_history, user_profile,
                        session_data >>

NextBroadcast ==
    /\ ncalls < MaxBroadcastCalls
    /\ \/ \E obj \in BroadcastAgents : RegisterAgent(obj)
       \/ \E query \in BroadcastQueries, uc \in UserContexts, llm \in BroadcastLLM :
             RouteQuery(query, uc, llm)
       \/ \E query \in BroadcastQueries, uc \in UserContexts :
             ProcessCall("billing1", query, uc)

SpecBroadcast == Init /\ [][NextBroadcast]_vars

\* what _get_invoice broadcasts for the latest invoice
InvoiceContext ==
    [last_invoice_amount |-> 12750, last_consumption |-> 450,
     customer_segment |-> "residential"]

\* the billing agent object handled an invoice query in the last call: its
\* process returned an invoice
InvoiceHandledBy(o) ==
    \E i \in 1..Len(trace) :
        /\ trace[i].ev = "process"
        /\ trace[i].agent = o
        /\ ~trace[i].raised
        /\ "invoice" \in DOMAIN trace[i].value.data

\* o holds every broadcast key with the broadcast value
HoldsInvoiceContext(ctx) ==
    \A k \in DOMAIN InvoiceContext : k \in DOMAIN ctx /\ ctx[k] = InvoiceContext[k]

\* C23: when the billing agent, registered with the orchestrator, handles
\* an invoice query inside route_query, then when route_query is over every
\* other registered agent (receiving with BaseAgent.receive_message) holds
\* last_invoice_amount, last_consumption and customer_segment in its private
\* context and the billing agent's own private context has not changed; when
\* the billing agent was never registered (no message bus) its process on the
\* same query changes no agent's context and raises nothing of its own (only
\* the TypeError of an unhashable invoice_number, as with a bus).
C23_BillingBroadcast ==
    [][/\ (call'.op = "route_query" /\ InvoiceHandledBy("billing1")') =>
              /\ ret'.kind \in {"return", "raise"}
              /\ \A i \in 1..Len(agents) :
                    LET o == agents[i].agent
                    IN  IF o = "billing1"
                        THEN agent_context'[o] = agent_context[o]
                        ELSE ClassOf[o] # "StubAgent" =>
                                HoldsInvoiceContext(agent_context'[o])
       /\ (call'.op = "process" /\ call'.agent = "billing1" /\ ~message_bus["billing1"]) =>
              /\ agent_context' = agent_context
              /\ (ret'.kind = "raise") <=>
                    /\ billing_group[call'.query] = 1
                    /\ DictGet(call'.context, "invoice_number", "latest") = PyList]_vars

\* route_query returned the billing agent's invoice, and two other agents are
\* registered: one holds the broadcast, the billing agent does not
C23_Witness ==
    /\ call.op = "route_query" /\ ret.kind = "return"
    /\ InvoiceHandledBy("billing1")
    /\ "ev1" \in RegisteredObjs
    /\ HoldsInvoiceContext(agent_context["ev1"])
    /\ agent_context["billing1"] = EmptyDict

\* the unregistered billing agent returned an invoice while another agent was
\* registered: that agent holds nothing
C23_WitnessNoBus ==
    /\ call.op = "process" /\ ret.kind = "return"
    /\ ~message_bus["billing1"]
    /\ "invoice" \in DOMAIN ret.value.data
    /\ "ev1" \in RegisteredObjs
    /\ agent_context["ev1"] = EmptyDict


(***************************************************************************)
(* One caller running route_query to its end, step by step, on any         *)
(* registry of the repository's agents and a caller-written one            *)
(***************************************************************************)
MaxRunAgents == 3

RunAgents == {"billing1", "ev1", "solar1", "support1", "stub1"}

RunQueries ==
    {QInvoice, QCharge, "produção vendida à rede hoje",
     "Reportar avaria: estado do ticket av-2024-003", "tenho uma dúvida"}

RunLLM ==
    {[kind |-> "exception"],
     [kind |-> "json", agent |-> "none", confidence |-> 0, numeric |-> TRUE],
     [kind |-> "text", mentions |-> {"support_agent"}]}

Caller == "t1"

NextRun ==
    \/ \E obj \in RunAgents :
          /\ frames[Caller].pc = 0
          /\ Len(agents) < MaxRunAgents
          /\ NameOf[obj] \notin RegNames(agents)
          /\ RegisterAgent(obj)
    \/ \E query \in RunQueries, llm \in RunLLM : ThreadBegin(Caller, query, llm)
    \/ ThreadStep(Caller)

\* a thread inside route_query goes on running its code: weak fairness of its
\* step, WF_vars(ThreadStep(Caller)), written with the predicate that
\* ENABLED <<ThreadStep(Caller)>>_vars equals (a step always moves pc)
RunFairness ==
    \/ []<>(~InFlight(Caller))
    \/ []<><<ThreadStep(Caller)>>_vars

SpecRun == Init /\ [][NextRun]_vars /\ RunFairness

\* the calls the caller's route_query has made so far
RunTrace == frames[Caller].f.w.trace

\* the receive_message calls among them
RunDeliveries == {i \in 1..Len(RunTrace) : RunTrace[i].ev = "receive_message"}

\* the agent whose process was running when call i of the trace was made:
\* the one of the next process call recorded, None after the last
ProcessingAt(i) ==
    LET later == {j \in (i + 1)..Len(RunTrace) : RunTrace[j].ev = "process"}
    IN  IF later = {} THEN None ELSE NameOf[RunTrace[Leftmost(later)].agent]

\* C24: every route_query call on a string query runs to completion: once
\* begun it ends, returning an envelope or raising.  The messages it
\* triggers cannot loop: every message delivered was sent by the agent whose
\* process was running or by the orchestrator's collaboration step on behalf of
\* the primary agent, never from inside a receive_message (nesting depth one);
\* a direct message is delivered once, a broadcast to each agent at most once,
\* so no message has more deliveries than there are registered agents.
C24_RunsToCompletion ==
    /\ (frames[Caller].pc \in 1..LastStep) ~> (frames[Caller].pc = Done)
    /\ [](frames[Caller].pc = Done =>
             frames[Caller].f.ret.kind \in {"return", "raise"})
    /\ [](frames[Caller].pc # 0 =>
             /\ \A i \in RunDeliveries :
                   LET m == RunTrace[i].message
                   IN  IF ProcessingAt(i) # None
                       THEN m.from_agent = ProcessingAt(i)
                       ELSE /\ m.message_type = "request"
                            /\ m.from_agent = NameOf[frames[Caller].f.candidates[1]]
             /\ \A i, j \in RunDeliveries :
                   (i < j /\ RunTrace[i].message = RunTrace[j].message) =>
                       /\ RunTrace[i].message.to_agent = "*"
                       /\ RunTrace[i].agent # RunTrace[j].agent
             /\ \A i \in RunDeliveries :
                   Cardinality({j \in RunDeliveries :
                                   RunTrace[j].message = RunTrace[i].message})
                       <= Len(agents))

\* a call that ended after the support agent, while processing, sent a
\* request that the billing agent received
C24_Witness ==
    /\ frames[Caller].pc = Done
    /\ frames[Caller].f.ret.kind = "return"
    /\ \E i \in RunDeliveries :
          /\ RunTrace[i].message.from_agent = "support_agent"
          /\ RunTrace[i].agent = "billing1"
          /\ ProcessingAt(i) = "support_agent"

\* a call that ended after a broadcast reached two agents
C24_WitnessBroadcast ==
    /\ frames[Caller].pc = Done
    /\ \E i, j \in RunDeliveries :
          /\ i < j
          /\ RunTrace[i].message = RunTrace[j].message
          /\ RunTrace[i].message.to_agent = "*"


(***************************************************************************)
(* C25: the shape of the history under sequential calls                    *)
(***************************************************************************)
RoleCount(h, role) == Cardinality({i \in 1..Len(h) : h[i].role = role})

\* every assistant turn of h directly follows a user turn
AssistantsFollowUsers(h) ==
    \A i \in 1..Len(h) :
        h[i].role = "assistant" => i > 1 /\ h[i - 1].role = "user"

\* C25: when route_query calls run one at a time, in every reachable history
\* each assistant entry directly follows a user entry (so no two assistant
\* entries are adjacent), there are never more assistant entries than user
\* entries, and an assistant entry a call appends directly follows the user
\* entry carrying that call's query, appended by the same call.
C25_AssistantAfterOwnUser ==
    /\ [](/\ AssistantsFollowUsers(conversation_history)
          /\ RoleCount(conversation_history, "assistant")
                <= RoleCount(conversation_history, "user"))
    /\ [][\A i \in (Len(conversation_history) + 1)..Len(conversation_history') :
              conversation_history'[i].role = "assistant" =>
                  /\ call'.op = "route_query"
                  /\ IsPrefix(conversation_history, conversation_history')
                  /\ i - 1 > Len(conversation_history)
                  /\ conversation_history'[i - 1].role = "user"
                  /\ conversation_history'[i - 1].content = call'.query
                  /\ conversation_history'[i - 1].timestamp =
                        conversation_history'[i].timestamp]_vars

\* an unanswered query followed by an answered one: two user turns, then the
\* assistant turn of the second call
C25_Witness ==
    /\ call.op = "route_query"
    /\ ret.kind = "return"
    /\ Roles(conversation_history) = << "user", "user", "assistant" >>
    /\ conversation_history[2].content = call.query
    /\ conversation_history[1].content # call.query


(***************************************************************************)
(* C26: a request sent over the message bus is answered into the void      *)
(***************************************************************************)
\* the receive_message calls of a trace that delivered a message of this type
DeliveriesOf(tr, message_type) ==
    {i \in 1..Len(tr) :
        /\ tr[i].ev = "receive_message"
        /\ tr[i].message.message_type = message_type}

\* the requests delivered while an agent's process was running: those
\* recorded before a process call ends (the collaboration step of
\* route_query hands over its own requests after the last one)
BusRequests(tr) ==
    {i \in DeliveriesOf(tr, "request") :
        \E j \in (i + 1)..Len(tr) : tr[j].ev = "process"}

\* no agent holds a message bus: nothing is sent
NoBus == [o \in AgentObjs |-> FALSE]

\* C26: when the one agent selected by route_query sends a request through
\* send_message while it processes, and the target is registered, the
\* target's receive_message is called exactly once with it and returns the
\* Response, which is delivered to nobody; the sender's process result, every
\* agent's private context and the shared context written by route_query are
\* what they are when the agent processes the same query without a message
\* bus, that is without sending.
C26_RequestAnswerDiscarded ==
    [][(/\ call'.op = "route_query"
        /\ Len(call'.candidates) = 1
        /\ BusRequests(trace') # {}) =>
          LET obj == call'.candidates[1]
              context == DictUpdate(call'.user_context, [query |-> call'.query])
              Same(quiet) ==
                  /\ ~quiet.raised
                  /\ BusRequests(quiet.w.trace) = {}
                  /\ ret'.kind = "return"
                  /\ ret'.value.response = quiet.value
                  /\ agent_context' = quiet.w.agent_context
                  /\ agent_context'[obj] = agent_context[obj]
                  /\ conversation_history'[Len(conversation_history')].content =
                        quiet.value.message
                  /\ user_profile' = Copied(user_profile, quiet.value.data)
          IN  /\ Cardinality(BusRequests(trace')) = 1
              /\ \A i \in BusRequests(trace') :
                    /\ trace'[i].message.from_agent = NameOf[obj]
                    /\ trace'[i].message.to_agent \in RegNames(agents)
                    /\ trace'[i].agent = RegGet(agents, trace'[i].message.to_agent)
              /\ DeliveriesOf(trace', "response") = {}
              /\ Same(process(World, agents, NoBus, obj, call'.query, context))]_vars

\* the EV agent answered the optimal-charging query after the registered
\* billing agent received its request and answered it
C26_Witness ==
    /\ call.op = "route_query"
    /\ ret.kind = "return"
    /\ ret.value.primary_agent = "ev_agent"
    /\ "optimization" \in DOMAIN ret.value.response.data
    /\ \E i \in BusRequests(trace) :
          /\ trace[i].agent = "billing1"
          /\ ~trace[i].raised
          /\ trace[i].message.payload = [request_type |-> "get_consumption_pattern"]
    /\ agent_context["ev1"] = EmptyDict


(***************************************************************************)
(* C27: how many agents _select_agents returns, and in which order         *)
(***************************************************************************)
\* C27: the candidate list of a route_query call holds at most two agents
\* and no agent twice; the envelope's collaborating_agents holds at most one
\* entry, which never names the primary agent; and when two agents are
\* selected with equal can_handle scores the primary is the one registered
\* first: it precedes in the registry the other one and every other
\* registered agent with that score.
C27_AtMostTwoDistinctInOrder ==
    call.op = "route_query" =>
        /\ Len(call.candidates) <= 2
        /\ \A i, j \in 1..Len(call.candidates) :
              i < j => /\ call.candidates[i] # call.candidates[j]
                       /\ NameOf[call.candidates[i]] # NameOf[call.candidates[j]]
        /\ \A i \in 1..Len(call.candidates) : call.candidates[i] \in RegisteredObjs
        /\ ret.kind = "return" =>
              /\ Len(ret.value.collaborating_agents) <= 1
              /\ \A i \in 1..Len(ret.value.collaborating_agents) :
                    /\ ret.value.collaborating_agents[i].agent # ret.value.primary_agent
                    /\ Len(call.candidates) = 2
                    /\ ret.value.collaborating_agents[i].agent = NameOf[call.candidates[2]]
        /\ (/\ Len(call.candidates) = 2
            /\ Score(call.candidates[1]) = Score(call.candidates[2])) =>
              \A o \in RegisteredObjs \ {call.candidates[1]} :
                  Score(o) = Score(call.candidates[1]) =>
                      RegisteredAt(call.candidates[1]) < RegisteredAt(o)

\* three registered agents score the query equally; the first two registered
\* were selected, in that order, and the second is the one collaborator
C27_Witness ==
    /\ call.op = "route_query"
    /\ ret.kind = "return"
    /\ Len(agents) = 3
    /\ \A o \in RegisteredObjs : Score(o) = Score(agents[1].agent) /\ Score(o) > 30
    /\ call.candidates = << agents[1].agent, agents[2].agent >>
    /\ Len(ret.value.collaborating_agents) = 1
    /\ ret.value.collaborating_agents[1].agent = agents[2].name


(***************************************************************************)
(* The MCP gateway (src/gateway.py): one handler behind two transports     *)
(***************************************************************************)
MaxGatewayCalls == 2

\* a JSON null where a dict is expected (params, result, error)
JsonNull == [null |-> TRUE]

\* Python truth of an optional dict and of an optional string
TruthyDict(d) == d # JsonNull /\ d # EmptyDict

FalsyStr(s) == s = None \/ s = ""

MCPResponse(id, result, error) == [id |-> id, result |-> result, error |-> error]

\* registry.handlers after the module is imported
GatewayHandlers == {"edp-billing-agent"}

get_handler(agent_id) == IF agent_id \in GatewayHandlers THEN agent_id ELSE None

\* BillingAgent.info.tools, by name
GatewayTools == << "get_invoice", "get_consumption", "list_payments", "get_contract_info" >>

\* BillingAgent.mock_invoices of the gateway (amounts in cents)
gateway_mock_invoices ==
    [n \in {"INV-2026-001", "INV-2025-012"} |->
        IF n = "INV-2026-001"
        THEN [number |-> n, date |-> "2026-01-15", amount |-> 8750, status |-> "paid",
              due_date |-> "2026-02-05", consumption_kwh |-> 245]
        ELSE [number |-> n, date |-> "2025-12-15", amount |-> 9230, status |-> "paid",
              due_date |-> "2026-01-05", consumption_kwh |-> 268]]

gateway_mock_consumption ==
    [m \in {"2026-01", "2025-12", "2025-11"} |->
        IF m = "2026-01" THEN [kwh |-> 245, cost |-> 8750]
        ELSE IF m = "2025-12" THEN [kwh |-> 268, cost |-> 9230]
        ELSE [kwh |-> 210, cost |-> 7215]]

gateway_payments ==
    << [date |-> "2026-01-20", amount |-> 8750, method |-> "Direct Debit", status |-> "completed"],
       [date |-> "2025-12-20", amount |-> 9230, method |-> "Direct Debit", status |-> "completed"],
       [date |-> "2025-11-18", amount |-> 7215, method |-> "Credit Card", status |-> "completed"] >>

\* BillingAgent.execute_tool: the dict returned, or the ValueError raised
execute_tool(tool_name, params) ==
    CASE tool_name = "get_invoice" ->
            LET invoice_num == DictGet(params, "invoice_number", None)
            IN  [raised |-> FALSE,
                 value |-> IF ~FalsyStr(invoice_num) /\ invoice_num \in DOMAIN gateway_mock_invoices
                           THEN [invoice |-> gateway_mock_invoices[invoice_num]]
                           ELSE [invoice |-> JsonNull, message |-> "Invoice not found"]]
      [] tool_name = "get_consumption" ->
            [raised |-> FALSE,
             value |-> [period |-> DictGet(params, "period", "month"),
                        data |-> gateway_mock_consumption, average_daily |-> 82]]
      [] tool_name = "list_payments" ->
            LET limit == DictGet(params, "limit", 10)
            IN  [raised |-> FALSE,
                 value |-> [payments |-> SubSeq(gateway_payments, 1,
                                                Min(limit, Len(gateway_payments)))]]
      [] tool_name = "get_contract_info" ->
            [raised |-> FALSE,
             value |-> [contract |-> [id |-> "CNT-EDP-12345", type |-> "Residential Electricity",
                                      tariff |-> "Bi-horária", power |-> "6.9 kVA",
                                      start_date |-> "2020-03-15", status |-> "active"]]]
      [] OTHER -> [raised |-> TRUE, value |-> "Unknown tool: " \o tool_name]

\* BillingAgent.handle_request of the gateway
gateway_handle_request(request) ==
    LET params == IF TruthyDict(request.params) THEN request.params ELSE EmptyDict
    IN  CASE request.method = "tools/list" ->
                MCPResponse(request.id, [tools |-> GatewayTools], JsonNull)
          [] request.method = "tools/call" ->
                LET Answer(r) ==
                        IF r.raised
                        THEN MCPResponse(request.id, JsonNull,
                                         [code |-> -32603, message |-> r.value])
                        ELSE MCPResponse(request.id, r.value, JsonNull)
                IN  Answer(execute_tool(DictGet(params, "name", None),
                                        DictGet(params, "arguments", EmptyDict)))
          [] request.method = "agent/info" ->
                MCPResponse(request.id,
                            [id |-> "edp-billing-agent", name |-> "EDP Billing Agent",
                             tools |-> GatewayTools, status |-> "online"],
                            JsonNull)
          [] OTHER ->
                MCPResponse(request.id, JsonNull,
                            [code |-> -32601,
                             message |-> "Method not found: " \o request.method])

\* what either endpoint answers once it has settled on an agent id
Dispatch(request, agent_id) ==
    IF get_handler(agent_id) = None
    THEN MCPResponse(request.id, JsonNull,
                     [code |-> -32602, message |-> "Agent not found: " \o agent_id])
    ELSE gateway_handle_request(request)

\* POST /mcp: a missing, null or empty agent_id means the billing agent
mcp_http(request) ==
    LET agent_id == IF TruthyDict(request.params)
                    THEN DictGet(request.params, "agent_id", None) ELSE None
    IN  Dispatch(request, IF FalsyStr(agent_id) THEN "edp-billing-agent" ELSE agent_id)

\* one message on /mcp/ws: the billing agent is the default only when params
\* is missing or empty; the JSON sent also carries _meta (processing time)
mcp_websocket(request) ==
    LET agent_id == IF TruthyDict(request.params)
                    THEN DictGet(request.params, "agent_id", None)
                    ELSE "edp-billing-agent"
        Sent(response) == [id |-> response.id, result |-> response.result,
                           error |-> response.error, meta |-> "processing_time_ms"]
    IN  Sent(Dispatch(request, agent_id))

\* the requests sent: those of the demo client and their variations
GatewayParams ==
    {JsonNull, EmptyDict,
     [cursor |-> "c1"],
     [agent_id |-> "edp-billing-agent"],
     [agent_id |-> "edp-ev-agent"],
     [agent_id |-> ""],
     [name |-> "list_payments", arguments |-> [limit |-> 3]],
     [name |-> "list_payments", arguments |-> [limit |-> 1], agent_id |-> "edp-billing-agent"],
     [name |-> "get_contract_info", arguments |-> EmptyDict],
     [name |-> "get_invoice", arguments |-> [invoice_number |-> "INVALID"]],
     [name |-> "get_invoice", arguments |-> [invoice_number |-> "INV-2026-001"],
      agent_id |-> "edp-billing-agent"],
     [name |-> "get_consumption", agent_id |-> "edp-billing-agent"],
     [name |-> "get_consumption", arguments |-> [period |-> "year"], agent_id |-> "edp-ev-agent"],
     [name |-> "transfer", agent_id |-> "edp-billing-agent"]}

GatewayRequests ==
    {[id |-> id, method |-> method, params |-> params] :
        id \in {"1", None},
        method \in {"tools/list", "tools/call", "agent/info", "ping"},
        params \in GatewayParams}

\* a request posted to /mcp
McpHttp(request) ==
    /\ call' = [op |-> "mcp_http", request |-> request]
    /\ ret' = [kind |-> "return", value |-> mcp_http(request)]
    /\ trace' = << >>
    /\ ncalls' = ncalls + 1
    /\ UNCHANGED << ticket_store, draws, frames, agents, message_bus, agent_context,
                    conversation_history, user_profile, session_data >>

\* a request sent on an open /mcp/ws connection
McpWebsocket(request) ==
    /\ call' = [op |-> "mcp_websocket", request |-> request]
    /\ ret' = [kind |-> "return", value |-> mcp_websocket(request)]
    /\ trace' = << >>
    /\ ncalls' = ncalls + 1
    /\ UNCHANGED << ticket_store, draws, frames, agents, message_bus, agent_context,
                    conversation_history, user_profile, session_data >>

NextGateway ==
    /\ ncalls < MaxGatewayCalls
    /\ \/ \E request \in GatewayRequests : McpHttp(request)
       \/ \E request \in GatewayRequests : McpWebsocket(request)

SpecGateway == Init /\ [][NextGateway]_vars

\* result and error of an answer, the parts both transports carry
ResultOrError(response) == [result |-> response.result, error |-> response.error]

\* the request names no agent although its params hold something
ParamsWithoutAgent(request) ==
    /\ TruthyDict(request.params)
    /\ "agent_id" \notin DOMAIN request.params

\* C28 as stated: each endpoint answers a request with the result or error
\* the other endpoint gives for the same request, and a tools/call or
\* tools/list request whose params are present without agent_id is answered
\* by the billing agent's handler on either endpoint.
C28_SameAnswerOnBothTransports ==
    call.op \in {"mcp_http", "mcp_websocket"} =>
        /\ ResultOrError(ret.value) =
              ResultOrError(IF call.op = "mcp_http" THEN mcp_websocket(call.request)
                            ELSE mcp_http(call.request))
        /\ (/\ call.request.method \in {"tools/call", "tools/list"}
            /\ ParamsWithoutAgent(call.request)) =>
              ResultOrError(ret.value) = ResultOrError(gateway_handle_request(call.request))

\* where the two endpoints do agree: on every request whose params are
\* missing or empty, or name an agent with a non-empty agent_id
C28_AgreeWhenAgentNamedOrNoParams ==
    (/\ call.op \in {"mcp_http", "mcp_websocket"}
     /\ \/ ~TruthyDict(call.request.params)
        \/ ~FalsyStr(DictGet(call.request.params, "agent_id", None))) =>
        ResultOrError(mcp_http(call.request)) = ResultOrError(mcp_websocket(call.request))

\* the demo client's list_payments call over the WebSocket was refused
C28_DemoCallRefused ==
    /\ call.op = "mcp_websocket"
    /\ call.request.method = "tools/call"
    /\ call.request.params = [name |-> "list_payments", arguments |-> [limit |-> 3]]
    /\ ret.value.error = [code |-> -32602, message |-> "Agent not found: None"]
    /\ mcp_http(call.request).error = JsonNull


(***************************************************************************)
(* The support agent's tickets, through route_query and by direct calls    *)
(***************************************************************************)
MaxTicketCalls == 3

TicketAgents == {"support1", "billing1"}

\* a fault report, a visit request, a status question, a FAQ question and a
\* power cut
TicketQueries ==
    {"Reportar avaria: estado do ticket av-2024-003", "agendar visita amanhã, como?",
     "estado do Ticket AV-2024-003 e agendar", "tenho uma dúvida", "sem luz no quadro"}

NextTickets ==
    /\ ncalls < MaxTicketCalls
    /\ \/ \E obj \in TicketAgents : RegisterAgent(obj)
       \/ \E query \in TicketQueries : RouteQuery(query, EmptyDict, [kind |-> "exception"])
       \/ \E query \in TicketQueries : ProcessCall("support1", query, EmptyDict)
       \/ ClearContext

SpecTickets == Init /\ [][NextTickets]_vars

TicketIds(tickets) == {tickets[i].id : i \in 1..Len(tickets)}

\* the answers of the support agent's process calls recorded in a trace that
\* report a created ticket (_report_issue and a successful _schedule_visit
\* return its id under data.ticket_id)
CreatedIn(tr) ==
    {i \in 1..Len(tr) :
        /\ tr[i].ev = "process"
        /\ ClassOf[tr[i].agent] = "SupportAgent"
        /\ ~tr[i].raised
        /\ "ticket_id" \in DOMAIN tr[i].value.data}

\* C29: every step keeps the existing tickets as they are and in place, and
\* never lowers ticket_counter; a call in which the support agent reported an
\* issue or scheduled a visit adds exactly one ticket, under the id it
\* returns, which no ticket held before, and raises ticket_counter by exactly
\* one; every other call, clear_context included, leaves the store and the
\* counter as they were; the store is never empty.
C29_TicketsOnlyAdded ==
    /\ [](ticket_store.tickets # << >>)
    /\ [][/\ IsPrefix(ticket_store.tickets, ticket_store'.tickets)
          /\ ticket_store'.ticket_counter >= ticket_store.ticket_counter
          /\ Len(ticket_store'.tickets) - Len(ticket_store.tickets) =
                Cardinality(CreatedIn(trace'))
          /\ ticket_store'.ticket_counter - ticket_store.ticket_counter =
                Cardinality(CreatedIn(trace'))
          /\ Cardinality(TicketIds(ticket_store'.tickets)) = Len(ticket_store'.tickets)
          /\ \A i \in CreatedIn(trace') :
                /\ trace'[i].value.data.ticket_id \notin TicketIds(ticket_store.tickets)
                /\ trace'[i].value.data.ticket_id \in TicketIds(ticket_store'.tickets)
          /\ call'.op = "clear_context" => ticket_store' = ticket_store]_vars

\* clear_context was called after a report and a visit created the tickets
\* AV-2024-005 and AV-2024-006: both are still there and the counter is 7
C29_Witness ==
    /\ call.op = "clear_context"
    /\ ticket_store.ticket_counter = 7
    /\ Len(ticket_store.tickets) = 6
    /\ ticket_store.tickets[5].id = "AV-2024-005"
    /\ ticket_store.tickets[6].id = "AV-2024-006"
    /\ \E i, j \in {5, 6} :
          /\ ticket_store.tickets[i].technician = None
          /\ ticket_store.tickets[j].technician # None


(***************************************************************************)
(* C30: the FAQ entry named by _get_faq                                    *)
(***************************************************************************)
\* the entries of the FAQ scoring highest on the query of the call
BestFaqEntries ==
    LET hits(n) == Matches(faq_database[n].keywords, Lower(call.query))
    IN  {n \in 1..Len(faq_database) :
            hits(n) > 0 /\ \A m \in 1..Len(faq_database) : hits(m) <= hits(n)}

\* C30 as stated: when the support agent answers with a matched FAQ entry,
\* data.faq_id is the id of the entry whose question is in the message, and
\* that entry is the first of those with the best keyword score.
C30_FaqIdOfMatchedEntry ==
    (/\ call.op = "process"
     /\ ClassOf[call.agent] = "SupportAgent"
     /\ ret.kind = "return"
     /\ "faq_id" \in DOMAIN ret.value.data) =>
        \E n \in BestFaqEntries :
            /\ \A m \in BestFaqEntries : n <= m
            /\ faq_database[n].question = ret.value.message
            /\ faq_database[n].id = ret.value.data.faq_id

\* what the code does: the question is the best entry's, the id is "horas",
\* the last key of the database, whichever entry matched
C30_FaqIdIsLastKey ==
    (/\ call.op = "process"
     /\ ClassOf[call.agent] = "SupportAgent"
     /\ ret.kind = "return"
     /\ "faq_id" \in DOMAIN ret.value.data) =>
        \E n \in BestFaqEntries :
            /\ \A m \in BestFaqEntries : n <= m
            /\ faq_database[n].question = ret.value.message
            /\ ret.value.data.faq_id = faq_database[Len(faq_database)].id

\* the question about a power cut was answered with the id of another entry
C30_WrongIdReturned ==
    /\ call.op = "process"
    /\ call.query = "porque sem luz"
    /\ ret.kind = "return"
    /\ ret.value.message = "O que faço se não tenho luz?"
    /\ ret.value.data.faq_id = "horas"

====
